---- MODULE Spec2Model ----
(***************************************************************************)
(* Model of docs/exp-data/phase-1/extract-data.py: the phase detector, the *)
(* influence analyzers, the message analyzer, the snapshot analyzer and    *)
(* the final merge of parse_and_analyze_json_with_thresholds.              *)
(*                                                                         *)
(* A message is the record of what the detectors read from it: its author  *)
(* and the answer of each regular-expression family on its content.  Turn  *)
(* numbers are Python's (0-based); At(messages, i) is messages[i].         *)
(* Scores are kept in hundredths (1.0 is One), thresholds likewise.        *)
(***************************************************************************)
EXTENDS Integers, Sequences, FiniteSets, TLC

VARIABLES
    messages,          \* session['messages'] of the conversation being analysed
    detection,         \* what detect_breakdown_phase(messages) returned and entered
    results,           \* the record returned by analyze_messages(messages)
    analysis_history,  \* data['analysisHistory'] of the file
    error_count,       \* len(data['errors']) of the file
    metadata,          \* the record returned by parse_and_analyze_json_with_thresholds
    regex_score,       \* compute_ensemble_score: its symbolic argument
    bert_score,        \* compute_ensemble_score: its semantic argument, or None
    use_nlp,           \* ConversationAnalyzer.use_nlp
    ensemble,          \* compute_ensemble_score: the value returned, or None
    bert_analyzer,     \* ConversationAnalyzer.bert_analyzer: what a call of it does
    json_files,        \* process_directory: the sorted list of files
    file_index,        \* process_directory: the files the loop has been through
    all_metadata,      \* process_directory: all_metadata (a worker's test_metadata)
    test_thresholds,   \* the thresholds mapping handed to the analyzer
    tasks,             \* run_sensitivity_analysis: the list of tasks
    pending,           \* the tasks whose result the pool has not yet yielded
    sensitivity_results, \* run_sensitivity_analysis: threshold name -> results
    returned,          \* the mapping run_sensitivity_analysis returned, or None
    peer_messages,     \* detect_peer_pressure_response: its argument messages
    trigger_turn,      \* detect_peer_pressure_response: its argument trigger_idx
    peer_pressure      \* detect_peer_pressure_response: the pair it returned

sensitivity == <<tasks, pending, sensitivity_results, returned>>

influence == <<peer_messages, trigger_turn, peer_pressure>>

batch == <<bert_analyzer, json_files, file_index, all_metadata, test_thresholds,
           sensitivity, influence>>

vars == <<messages, detection, results, analysis_history, error_count, metadata,
          regex_score, bert_score, use_nlp, ensemble, batch>>

(***************************************************************************)
(* Bounds of the model.                                                    *)
(***************************************************************************)
MaxLen == 4          \* longest message list
MaxSnapshots == 3    \* longest snapshot history
MaxSignal == 3       \* largest symbolic count handed to the ensemble scorer

(***************************************************************************)
(* Constants of the program, in hundredths where they are fractions.       *)
(***************************************************************************)
One == 100           \* the cap 1.0 of min(1.0, score)
WeightBert == 60     \* weight_bert = 0.6
Cut == 50            \* the 0.5 cut of every fused decision
LookAhead == 6       \* range(trigger_idx + 1, min(trigger_idx + 6, len))
ScoreBar == 3        \* "is_escalating or score > 3"
FullPatternMin == 4  \* phases_detected >= 4
LongConclusion == 30 \* max(conclusion_periods) > 30
ManyChanges == 3     \* phase_changes >= 3

\* Python's None, and a value that is present
None == << >>
Some(v) == <<v>>

\* The thresholds the model reads; keys is the set of names the mapping holds
ThresholdNames ==
    { "escalation_threshold", "peer_pressure_min_responders",
      "prevention_content_threshold", "recovery_duration_threshold",
      "recovery_proportion_threshold", "conclusion_duration_threshold",
      "conclusion_proportion_threshold" }

DEFAULT_THRESHOLDS ==
    [ keys |-> ThresholdNames,
      escalation_threshold |-> 30,
      peer_pressure_min_responders |-> 2,
      prevention_content_threshold |-> 3,
      recovery_duration_threshold |-> 10,
      recovery_proportion_threshold |-> 20,
      conclusion_duration_threshold |-> 20,
      conclusion_proportion_threshold |-> 30 ]

\* SENSITIVITY_RANGES['escalation_threshold']
EscalationRange == {20, 25, 30, 35, 40}

Max(a, b) == IF a >= b THEN a ELSE b
Min(a, b) == IF a <= b THEN a ELSE b

At(msgs, i) == msgs[i + 1]

(***************************************************************************)
(* Inputs.  Each content stands for a text with exactly these answers:     *)
(*   plain    "let us look at the data"                                    *)
(*   meta     "reflecting on everything we've discussed"                   *)
(*   mirror   "as you said"                                                *)
(*   closure  "thank you for sharing"                                      *)
(*   mystical a run of infinity signs                                      *)
(*   extreme  "that is transcendent" (intensity 3)                         *)
(*   compet   "perfectly said"                                             *)
(***************************************************************************)
Content(meta, mystical, intensity, competitive, mirroring, closure) ==
    [ meta |-> meta, mystical |-> mystical, intensity |-> intensity,
      competitive |-> competitive, mirroring |-> mirroring, closure |-> closure ]

Plain    == Content(FALSE, FALSE, 0, FALSE, FALSE, FALSE)
MetaText == Content(TRUE,  FALSE, 0, FALSE, FALSE, FALSE)
Mirror   == Content(FALSE, FALSE, 0, FALSE, TRUE,  FALSE)
Closure  == Content(FALSE, FALSE, 0, FALSE, FALSE, TRUE)
Mystical == Content(FALSE, TRUE,  0, FALSE, FALSE, FALSE)
Extreme  == Content(FALSE, FALSE, 3, FALSE, FALSE, FALSE)
Compet   == Content(FALSE, FALSE, 0, TRUE,  FALSE, FALSE)

Participants == {"claude", "gpt", "grok"}

\* msg['timestamp']: an ISO string that denotes a second, or some other text
IsoTime(t) == [ kind |-> "iso", seconds |-> t ]
NotATime == [ kind |-> "text", seconds |-> 0 ]

Msg(p, c) == [ participantId |-> p, content |-> c, timestamp |-> IsoTime(0) ]

Stamped(m, timestamp) == [ m EXCEPT !.timestamp = timestamp ]

(***************************************************************************)
(* EnsembleScorer.                                                         *)
(***************************************************************************)
FloatOf(b) == IF b THEN One ELSE 0

compute_ensemble_score(rs, bs) ==
    IF ~use_nlp \/ bs = None
    THEN rs
    ELSE (WeightBert * Min(One, bs[1]) + (One - WeightBert) * Min(One, rs)) \div One

\* The semantic score a detector reads for a message: "... if self.use_nlp
\* else 0".  The specifications that analyse messages run with the semantic
\* scorer absent (NLP_AVAILABLE false), so no message carries one.
BertScore(m) == Some(0)

MetaDetected(m) ==
    compute_ensemble_score(FloatOf(m.content.meta), BertScore(m)) > Cut

ClosureDetected(m) ==
    compute_ensemble_score(FloatOf(m.content.closure), BertScore(m)) > Cut

is_mystical_content(m) ==
    IF use_nlp
    THEN compute_ensemble_score(FloatOf(m.content.mystical), BertScore(m)) > Cut
    ELSE m.content.mystical

(***************************************************************************)
(* InfluenceAnalyzer: competitive escalation over messages[start:end].     *)
(***************************************************************************)
RECURSIVE EscalationLoop(_, _, _, _, _)
EscalationLoop(msgs, i, start_idx, end_idx, acc) ==
    IF i >= end_idx \/ i >= Len(msgs)
    THEN acc
    ELSE LET c == At(msgs, i).content
             current_intensity == c.intensity
             escalates == i > start_idx /\ current_intensity > acc.previous_intensity
             gain == IF escalates THEN current_intensity - acc.previous_intensity ELSE 0
         IN  EscalationLoop(msgs, i + 1, start_idx, end_idx,
                 [ escalation_count |-> acc.escalation_count + (IF escalates THEN 1 ELSE 0),
                   escalation_score |-> acc.escalation_score + gain
                                        + (IF c.competitive THEN 1 ELSE 0),
                   previous_intensity |-> current_intensity ])

\* The comparison of line 624 turned around: a faulty variant under which a
\* higher threshold flags more
OneUpsmanshipReversed(escalation_count, messages_in_range, thresholds) ==
    escalation_count * One <= messages_in_range * thresholds.escalation_threshold

\* The comparison of line 624 as it is under an escalation_threshold of 0
OneUpsmanshipAtZero(escalation_count, messages_in_range, thresholds) ==
    escalation_count * One >= messages_in_range * 0

OneUpsmanship(escalation_count, messages_in_range, thresholds) ==
    escalation_count * One >= messages_in_range * thresholds.escalation_threshold

detect_competitive_escalation(msgs, start_idx, end_idx, thresholds) ==
    IF end_idx - start_idx < 2
    THEN [ one_upsmanship |-> FALSE, score |-> 0 ]
    ELSE LET acc == EscalationLoop(msgs, start_idx, start_idx, end_idx,
                        [ escalation_count |-> 0, escalation_score |-> 0,
                          previous_intensity |-> 0 ])
         IN  [ one_upsmanship |-> OneUpsmanship(acc.escalation_count,
                                                end_idx - start_idx, thresholds),
               score |-> acc.escalation_score ]

(***************************************************************************)
(* InfluenceAnalyzer: peer pressure after the trigger at trigger_idx.      *)
(***************************************************************************)
Qualifies(m) == m.content.mirroring \/ m.content.closure

RECURSIVE RespondersLoop(_, _, _, _, _)
RespondersLoop(msgs, i, stop, trigger_participant, responding_participants) ==
    IF i >= stop
    THEN responding_participants
    ELSE LET m == At(msgs, i)
         IN  RespondersLoop(msgs, i + 1, stop, trigger_participant,
                 IF m.participantId # trigger_participant /\ Qualifies(m)
                 THEN Append(responding_participants, m.participantId)
                 ELSE responding_participants)

SeqRange(s) == { s[k] : k \in 1..Len(s) }

\* The detector looking at every turn after the trigger
PeerPressureToTheEnd(msgs, trigger_idx, thresholds) ==
    IF trigger_idx >= Len(msgs) - 1
    THEN [ has_peer_pressure |-> FALSE, responders |-> << >> ]
    ELSE LET responding_participants ==
                 RespondersLoop(msgs, trigger_idx + 1, Len(msgs),
                                At(msgs, trigger_idx).participantId, << >>)
             unique_responders == Cardinality(SeqRange(responding_participants))
         IN  [ has_peer_pressure |->
                   unique_responders >= thresholds.peer_pressure_min_responders,
               responders |-> responding_participants ]

detect_peer_pressure_response(msgs, trigger_idx, thresholds) ==
    IF trigger_idx >= Len(msgs) - 1
    THEN [ has_peer_pressure |-> FALSE, responders |-> << >> ]
    ELSE LET responding_participants ==
                 RespondersLoop(msgs, trigger_idx + 1,
                                Min(trigger_idx + LookAhead, Len(msgs)),
                                At(msgs, trigger_idx).participantId, << >>)
             unique_responders == Cardinality(SeqRange(responding_participants))
         IN  [ has_peer_pressure |->
                   unique_responders >= thresholds.peer_pressure_min_responders,
               responders |-> responding_participants ]

(***************************************************************************)
(* PhaseDetector: detect_breakdown_phase, one operator per block of the    *)
(* loop body, applied in the order of the code.                            *)
(***************************************************************************)
PhaseInit ==
    [ phases |-> [ sustained_engagement |-> 0, meta_reflection_trigger |-> 0,
                   peer_response |-> 0, competitive_escalation |-> 0,
                   mystical_breakdown |-> 0 ],
      phase_durations |-> [ phase1_duration |-> 0, phase2_duration |-> 0,
                            phase3_duration |-> 0, phase4_duration |-> 0,
                            phase5_duration |-> 0 ],
      meta_reflection_started |-> -1,
      peer_response_started |-> -1,
      competitive_started |-> -1,
      mystical_started |-> -1,
      current_phase |-> "sustained_engagement",
      phase_start |-> 0,
      meta_reflection_triggers |-> << >>,
      breakdown_after_meta |-> FALSE ]

\* The block without "if meta_reflection_started == -1": a faulty variant in
\* which every match moves the start
MetaStepRestarting(msgs, i, st) ==
    IF MetaDetected(At(msgs, i))
    THEN [ st EXCEPT !.meta_reflection_started = i,
                     !.phases.meta_reflection_trigger = i,
                     !.phase_durations.phase1_duration = i - st.phase_start,
                     !.phase_start = i,
                     !.current_phase = "meta_reflection",
                     !.meta_reflection_triggers = Append(@, i) ]
    ELSE st

\* Phase 1->2: meta-reflection trigger
MetaStep(msgs, i, st) ==
    IF MetaDetected(At(msgs, i))
    THEN LET entered ==
                 IF st.meta_reflection_started = -1
                 THEN [ st EXCEPT !.meta_reflection_started = i,
                                  !.phases.meta_reflection_trigger = i,
                                  !.phase_durations.phase1_duration = i - st.phase_start,
                                  !.phase_start = i,
                                  !.current_phase = "meta_reflection" ]
                 ELSE st
         IN  [ entered EXCEPT !.meta_reflection_triggers = Append(@, i) ]
    ELSE st

\* Phase 2->3: peer response
PeerStep(msgs, i, st, thresholds) ==
    IF st.meta_reflection_started > -1 /\ st.peer_response_started = -1
    THEN IF detect_peer_pressure_response(msgs, st.meta_reflection_started,
                                          thresholds).has_peer_pressure
         THEN LET started == st.meta_reflection_started + 1
              IN  [ st EXCEPT !.peer_response_started = started,
                              !.phases.peer_response = started,
                              !.phase_durations.phase2_duration = started - st.phase_start,
                              !.phase_start = started,
                              !.current_phase = "peer_response",
                              !.breakdown_after_meta = TRUE ]
         ELSE st
    ELSE st

\* The block recording the turn of the detection as the start
CompetitiveStepAtDetection(msgs, i, st, thresholds) ==
    IF i >= Max(IF st.peer_response_started > -1 THEN st.peer_response_started ELSE 0,
                IF st.meta_reflection_started > -1 THEN st.meta_reflection_started ELSE 0)
            + 2
    THEN LET start_check == Max(Max(st.peer_response_started,
                                    st.meta_reflection_started), 0)
             r == detect_competitive_escalation(msgs, start_check, i + 1, thresholds)
         IN  IF (r.one_upsmanship \/ r.score > ScoreBar) /\ st.competitive_started = -1
             THEN [ st EXCEPT !.competitive_started = i,
                              !.phases.competitive_escalation = i,
                              !.phase_start = i,
                              !.current_phase = "competitive_escalation" ]
             ELSE st
    ELSE st

\* Phase 3->4: competitive escalation
CompetitiveStep(msgs, i, st, thresholds) ==
    IF i >= Max(IF st.peer_response_started > -1 THEN st.peer_response_started ELSE 0,
                IF st.meta_reflection_started > -1 THEN st.meta_reflection_started ELSE 0)
            + 2
    THEN LET start_check == Max(Max(st.peer_response_started,
                                    st.meta_reflection_started), 0)
             r == detect_competitive_escalation(msgs, start_check, i + 1, thresholds)
         IN  IF (r.one_upsmanship \/ r.score > ScoreBar) /\ st.competitive_started = -1
             THEN LET started == start_check + 1
                      d == IF st.peer_response_started > -1
                           THEN [ st.phase_durations EXCEPT
                                    !.phase3_duration = started - st.peer_response_started ]
                           ELSE IF st.meta_reflection_started > -1
                           THEN [ st.phase_durations EXCEPT
                                    !.phase2_duration = started - st.meta_reflection_started ]
                           ELSE st.phase_durations
                  IN  [ st EXCEPT !.competitive_started = started,
                                  !.phases.competitive_escalation = started,
                                  !.phase_durations = d,
                                  !.phase_start = started,
                                  !.current_phase = "competitive_escalation" ]
             ELSE st
    ELSE st

\* Phase 4->5: mystical breakdown
MysticalStep(msgs, i, st) ==
    IF is_mystical_content(At(msgs, i)) /\ st.mystical_started = -1
    THEN LET d == IF st.competitive_started > -1
                  THEN [ st.phase_durations EXCEPT
                           !.phase4_duration = i - st.competitive_started ]
                  ELSE IF st.peer_response_started > -1
                  THEN [ st.phase_durations EXCEPT
                           !.phase3_duration = i - st.peer_response_started ]
                  ELSE IF st.meta_reflection_started > -1
                  THEN [ st.phase_durations EXCEPT
                           !.phase2_duration = i - st.meta_reflection_started ]
                  ELSE [ st.phase_durations EXCEPT !.phase1_duration = i ]
         IN  [ st EXCEPT !.mystical_started = i,
                         !.phases.mystical_breakdown = i,
                         !.phase_durations = d,
                         !.phase_start = i,
                         !.current_phase = "mystical_breakdown" ]
    ELSE st

RECURSIVE PhaseLoop(_, _, _, _)
PhaseLoop(msgs, i, st, thresholds) ==
    IF i >= Len(msgs)
    THEN st
    ELSE PhaseLoop(msgs, i + 1,
             MysticalStep(msgs, i,
                 CompetitiveStep(msgs, i,
                     PeerStep(msgs, i, MetaStep(msgs, i, st), thresholds),
                     thresholds)),
             thresholds)

\* "Set final phase duration"
FinalDuration(msgs, st) ==
    LET n == Len(msgs)
        d == st.phase_durations
    IN  IF st.mystical_started > -1
        THEN [ d EXCEPT !.phase5_duration = n - st.mystical_started ]
        ELSE IF st.competitive_started > -1
        THEN [ d EXCEPT !.phase4_duration = n - st.competitive_started ]
        ELSE IF st.peer_response_started > -1
        THEN [ d EXCEPT !.phase3_duration = n - st.peer_response_started ]
        ELSE IF st.meta_reflection_started > -1
        THEN [ d EXCEPT !.phase2_duration = n - st.meta_reflection_started ]
        ELSE [ d EXCEPT !.phase1_duration = n ]

\* "Determine if full 5-phase pattern occurred": the phases whose turn is > 0
PhasesDetected(phases) ==
    Cardinality({ ph \in DOMAIN phases : phases[ph] > 0 })

FullPattern(phases) == PhasesDetected(phases) >= FullPatternMin

detect_breakdown_phase(msgs, thresholds) ==
    LET st == PhaseLoop(msgs, 0, PhaseInit, thresholds)
    IN  [ phases |-> st.phases,
          meta_causes_breakdown |-> IF st.breakdown_after_meta THEN 1 ELSE 0,
          meta_trigger_count |-> Len(st.meta_reflection_triggers),
          current_phase |-> st.current_phase,
          phase_durations |-> FinalDuration(msgs, st),
          full_pattern |-> FullPattern(st.phases),
          \* the loop's own entry turns, kept to state what was entered
          meta_reflection_started |-> st.meta_reflection_started,
          peer_response_started |-> st.peer_response_started,
          competitive_started |-> st.competitive_started,
          mystical_started |-> st.mystical_started ]

(***************************************************************************)
(* InfluenceAnalyzer: detect_bidirectional_influence.                      *)
(* participant_influence_map is kept as the list of its entries in the     *)
(* order they were appended; a dict iterates its keys in the order of      *)
(* their first insertion.                                                  *)
(***************************************************************************)
IsInfluenceTrigger(m) == m.content.closure \/ m.content.competitive

RECURSIVE AppendInfluences(_, _, _, _, _)
AppendInfluences(map, trigger_participant, at_turn, responders, k) ==
    IF k > Len(responders)
    THEN map
    ELSE AppendInfluences(
             Append(map, [ trigger |-> trigger_participant,
                           influenced |-> responders[k],
                           at_turn |-> at_turn ]),
             trigger_participant, at_turn, responders, k + 1)

\* First pass: identify all influence events
RECURSIVE FirstPass(_, _, _, _)
FirstPass(msgs, i, map, thresholds) ==
    IF i >= Len(msgs) - 1
    THEN map
    ELSE LET m == At(msgs, i)
             r == detect_peer_pressure_response(msgs, i, thresholds)
         IN  FirstPass(msgs, i + 1,
                 IF IsInfluenceTrigger(m) /\ r.has_peer_pressure
                 THEN AppendInfluences(map, m.participantId, i, r.responders, 1)
                 ELSE map,
                 thresholds)

\* The entries of the map in the order the nested loops of the second pass
\* visit them: key by key, each key's list in order.
RECURSIVE KeysOf(_, _, _)
KeysOf(map, k, keys) ==
    IF k > Len(map)
    THEN keys
    ELSE KeysOf(map, k + 1,
                IF map[k].trigger \in SeqRange(keys) THEN keys
                ELSE Append(keys, map[k].trigger))

InfluencesBy(map, p) == SelectSeq(map, LAMBDA e : e.trigger = p)

RECURSIVE VisitOrder(_, _, _, _)
VisitOrder(map, keys, k, out) ==
    IF k > Len(keys)
    THEN out
    ELSE VisitOrder(map, keys, k + 1, out \o InfluencesBy(map, keys[k]))

\* The inner loop without "if pair_key in processed_pairs: continue": a faulty
\* variant that records a pair once from each side
PairStepNoDedup(map, influence_event, acc) ==
    LET participant_a == influence_event.trigger
        participant_b == influence_event.influenced
        turn_a_to_b == influence_event.at_turn
        pair_key == {participant_a, participant_b}
        back == SelectSeq(InfluencesBy(map, participant_b),
                          LAMBDA e : e.influenced = participant_a)
    IN  IF Len(back) = 0
        THEN acc
        ELSE LET turn_b_to_a == back[1].at_turn
             IN  [ bidirectional_events |->
                       Append(acc.bidirectional_events,
                           [ participants |-> <<participant_a, participant_b>>,
                             first_influence_turn |-> Min(turn_a_to_b, turn_b_to_a),
                             second_influence_turn |-> Max(turn_a_to_b, turn_b_to_a),
                             turn_gap |-> Max(turn_a_to_b, turn_b_to_a)
                                          - Min(turn_a_to_b, turn_b_to_a) ]),
                   processed_pairs |-> acc.processed_pairs \cup {pair_key} ]

\* One iteration of the inner loop "for influence_event in influences_by_a"
PairStep(map, influence_event, acc) ==
    LET participant_a == influence_event.trigger
        participant_b == influence_event.influenced
        turn_a_to_b == influence_event.at_turn
        pair_key == {participant_a, participant_b}
        back == SelectSeq(InfluencesBy(map, participant_b),
                          LAMBDA e : e.influenced = participant_a)
    IN  IF pair_key \in acc.processed_pairs
        THEN acc
        ELSE IF Len(back) = 0
        THEN acc
        ELSE LET turn_b_to_a == back[1].at_turn
             IN  [ bidirectional_events |->
                       Append(acc.bidirectional_events,
                           [ participants |-> <<participant_a, participant_b>>,
                             first_influence_turn |-> Min(turn_a_to_b, turn_b_to_a),
                             second_influence_turn |-> Max(turn_a_to_b, turn_b_to_a),
                             turn_gap |-> Max(turn_a_to_b, turn_b_to_a)
                                          - Min(turn_a_to_b, turn_b_to_a) ]),
                   processed_pairs |-> acc.processed_pairs \cup {pair_key} ]

\* Second pass: detect bidirectional patterns
RECURSIVE SecondPass(_, _, _, _)
SecondPass(map, order, k, acc) ==
    IF k > Len(order)
    THEN acc
    ELSE SecondPass(map, order, k + 1, PairStep(map, order[k], acc))

detect_bidirectional_influence(msgs, thresholds) ==
    LET map == FirstPass(msgs, 0, << >>, thresholds)
        order == VisitOrder(map, KeysOf(map, 1, << >>), 1, << >>)
        acc == SecondPass(map, order, 1,
                   [ bidirectional_events |-> << >>, processed_pairs |-> {} ])
    IN  [ bidirectional_influence_detected |->
              IF Len(acc.bidirectional_events) > 0 THEN 1 ELSE 0,
          bidirectional_event_count |-> Len(acc.bidirectional_events),
          bidirectional_pairs |-> Cardinality(acc.processed_pairs),
          bidirectional_events |-> acc.bidirectional_events,
          participant_influence_map |-> map ]

(***************************************************************************)
(* MessageAnalyzer: analyze_messages, the fields the record gets from the  *)
(* phase detector, the peer-pressure scan, the bidirectional analysis, the *)
(* mystical count and the breakdown classification.                        *)
(***************************************************************************)
Turns(msgs) == 0 .. (Len(msgs) - 1)

TurnOrMinusOne(t) == IF t > 0 THEN t ELSE -1

closure_triggers(msgs) == { i \in Turns(msgs) : ClosureDetected(At(msgs, i)) }

peer_pressure_events(msgs, thresholds) ==
    { i \in closure_triggers(msgs) :
        detect_peer_pressure_response(msgs, i, thresholds).has_peer_pressure }

BreakdownConfidence(phases, closure_count) ==
    IF phases.mystical_breakdown > 0 THEN "clear"
    ELSE IF phases.competitive_escalation > 0 THEN "partial"
    ELSE IF phases.meta_reflection_trigger > 0 /\ closure_count > 3 THEN "likely"
    ELSE "no_breakdown"

\* round(x * 100, 1) of a ratio num / den, in tenths of a percent
Percentage(num, den) == (num * 2000 + den) \div (2 * den)

\* datetime.fromisoformat(messages[i]['timestamp']...): the exception the
\* message raises, "" when its timestamp parses
TimestampError(m) == IF m.timestamp.kind = "iso" THEN "" ELSE "ValueError"

\* The loop "for i in range(1, len(messages))" over the pairs of neighbours:
\* the exception that leaves it, "" when every timestamp it reads parses
LatencyError(msgs) ==
    LET bad == { i \in 1 .. Len(msgs) : TimestampError(msgs[i]) # "" }
    IN  IF Len(msgs) < 2 \/ bad = {} THEN ""
        ELSE TimestampError(msgs[CHOOSE i \in bad : \A j \in bad : i <= j])

\* round(num / den, n), as a whole number of 10^-n when scale is 10^n
Rounded(num, den, scale) == (2 * num * scale + den) \div (2 * den)

RECURSIVE LatencySum(_, _)
LatencySum(msgs, i) ==
    IF i >= Len(msgs) THEN 0
    ELSE (At(msgs, i).timestamp.seconds - At(msgs, i - 1).timestamp.seconds)
             + LatencySum(msgs, i + 1)

\* round(np.mean(latencies), 2) if latencies else 0, in hundredths of a second
avg_response_latency(msgs) ==
    IF Len(msgs) > 1 THEN Rounded(LatencySum(msgs, 1), Len(msgs) - 1, 100) ELSE 0

\* A density with a different value for the empty conversation
DensityOfEmptyOne(count, msgs) ==
    IF Len(msgs) > 0 THEN Rounded(count, Len(msgs), 1000) ELSE 1000

\* round(count / len(messages), 3) if messages else 0, in thousandths
Density(count, msgs) ==
    IF Len(msgs) > 0 THEN Rounded(count, Len(msgs), 1000) ELSE 0

\* round(mirroring_count / (len(messages) - 1), 3) if len(messages) > 1 else 0
mirroring_coefficient(msgs) ==
    LET mirroring_count ==
            Cardinality({ i \in 1 .. Len(msgs) - 1 : At(msgs, i).content.mirroring })
    IN  IF Len(msgs) > 1 THEN Rounded(mirroring_count, Len(msgs) - 1, 1000) ELSE 0

\* round(forward_ratio * 100, 1), in tenths of a percent, where forward_ratio
\* is future_count / total if total > 0 else 0.5
mean_forward_ratio(future_count, past_count) ==
    IF future_count + past_count > 0
    THEN Percentage(future_count, future_count + past_count)
    ELSE 500

\* The texts of the model hold no substantive question and no word of the
\* future or the past
WordCount(msgs) == 0

MessageRecord(det, msgs, thresholds) ==
    LET phases == det.phases
        bidir == detect_bidirectional_influence(msgs, thresholds)
        events == peer_pressure_events(msgs, thresholds)
        confidence == BreakdownConfidence(phases, Cardinality(closure_triggers(msgs)))
        occurred == IF confidence = "no_breakdown" THEN 0 ELSE 1
    IN  [ current_breakdown_phase |-> det.current_phase,
          meta_reflection_turn |-> TurnOrMinusOne(phases.meta_reflection_trigger),
          competitive_escalation_turn |-> TurnOrMinusOne(phases.competitive_escalation),
          mystical_breakdown_turn |-> TurnOrMinusOne(phases.mystical_breakdown),
          full_5_phase_pattern |-> IF det.full_pattern THEN 1 ELSE 0,
          meta_causes_breakdown |-> det.meta_causes_breakdown,
          meta_trigger_count |-> det.meta_trigger_count,
          phase_durations |-> det.phase_durations,
          peer_pressure_detected |-> IF events # {} THEN 1 ELSE 0,
          peer_pressure_event_count |-> Cardinality(events),
          closure_triggers_count |-> Cardinality(closure_triggers(msgs)),
          bidirectional_influence_detected |-> bidir.bidirectional_influence_detected,
          bidirectional_event_count |-> bidir.bidirectional_event_count,
          bidirectional_pairs |-> bidir.bidirectional_pairs,
          bidirectional_events |-> bidir.bidirectional_events,
          mystical_language_count |->
              Cardinality({ i \in Turns(msgs) : is_mystical_content(At(msgs, i)) }),
          breakdown_occurred |-> occurred,
          breakdown_confidence |-> confidence,
          time_to_breakdown |-> IF occurred = 1 THEN phases.meta_reflection_trigger ELSE -1,
          avg_response_latency |-> avg_response_latency(msgs),
          meta_reflection_density |->
              Density(Cardinality({ i \in Turns(msgs) : MetaDetected(At(msgs, i)) }),
                      msgs),
          peer_pressure_intensity |->
              IF events # {} /\ Len(msgs) > 0
              THEN Rounded(Cardinality(events), Len(msgs), 1000) ELSE 0,
          mystical_density |->
              Density(Cardinality({ i \in Turns(msgs) :
                                      is_mystical_content(At(msgs, i)) }), msgs),
          mirroring_coefficient |-> mirroring_coefficient(msgs),
          mean_forward_ratio |-> mean_forward_ratio(WordCount(msgs), WordCount(msgs)),
          question_density |-> Density(WordCount(msgs), msgs) ]

analyze_messages(msgs, thresholds) ==
    MessageRecord(detect_breakdown_phase(msgs, thresholds), msgs, thresholds)

(***************************************************************************)
(* SnapshotAnalyzer.  A snapshot is messageCountAtAnalysis and what the    *)
(* keyword searches find in its analysis object.                           *)
(***************************************************************************)
InConclusion(snapshot) ==
    snapshot.analysis.conversationPhase
        \in {"conclusion", "transcendent_conclusion", "integration_conclusion"}

RECURSIVE SumSeq(_)
SumSeq(s) == IF Len(s) = 0 THEN 0 ELSE s[1] + SumSeq(Tail(s))

RECURSIVE MaxSeq(_)
MaxSeq(s) == IF Len(s) = 1 THEN s[1] ELSE Max(s[1], MaxSeq(Tail(s)))

Indices(s) == 1 .. Len(s)

\* The walk over phase_timeline that counts recovery attempts and periods
RECURSIVE PeriodLoop(_, _, _)
PeriodLoop(history, k, acc) ==
    IF k > Len(history)
    THEN acc
    ELSE LET turn == history[k].messageCountAtAnalysis
         IN  PeriodLoop(history, k + 1,
                 IF InConclusion(history[k])
                 THEN IF ~acc.in_conclusion
                      THEN [ acc EXCEPT
                               !.non_conclusion_periods =
                                   IF k > 1 THEN Append(@, turn - acc.period_start) ELSE @,
                               !.in_conclusion = TRUE,
                               !.period_start = turn ]
                      ELSE acc
                 ELSE IF acc.in_conclusion
                      THEN [ acc EXCEPT
                               !.recovery_attempts = @ + 1,
                               !.conclusion_periods = Append(@, turn - acc.period_start),
                               !.in_conclusion = FALSE,
                               !.period_start = turn ]
                      ELSE acc)

Periods(history) ==
    LET acc == PeriodLoop(history, 1,
                   [ recovery_attempts |-> 0, conclusion_periods |-> << >>,
                     non_conclusion_periods |-> << >>, in_conclusion |-> FALSE,
                     period_start |-> 0 ])
        final_turn == history[Len(history)].messageCountAtAnalysis
    IN  IF Len(history) = 0 THEN acc
        ELSE IF acc.in_conclusion
        THEN [ acc EXCEPT !.conclusion_periods = Append(@, final_turn - acc.period_start) ]
        ELSE [ acc EXCEPT !.non_conclusion_periods = Append(@, final_turn - acc.period_start) ]

\* Index (1-based) of the first snapshot of the trailing non-conclusion
\* stretch, 0 when the last snapshot is in conclusion (last_conclusion_exit)
LastConclusionExit(history) ==
    IF Len(history) = 0 \/ InConclusion(history[Len(history)])
    THEN 0
    ELSE CHOOSE k \in Indices(history) :
             /\ \A j \in k .. Len(history) : ~InConclusion(history[j])
             /\ (k = 1 \/ InConclusion(history[k - 1]))

SustainedDuration(history) ==
    LET k == LastConclusionExit(history)
    IN  IF k = 0 THEN 0
        ELSE history[Len(history)].messageCountAtAnalysis
             - history[k].messageCountAtAnalysis

SustainedRecovery(history, recovery_attempts, thresholds) ==
    LET recovery_sustained_duration == SustainedDuration(history)
        remaining_conv == recovery_sustained_duration
    IN  /\ recovery_attempts > 0
        /\ LastConclusionExit(history) > 0
        /\ \/ recovery_sustained_duration > thresholds.recovery_duration_threshold
           \/ /\ remaining_conv > 0
              /\ recovery_sustained_duration * One
                     > thresholds.recovery_proportion_threshold * remaining_conv

PhaseChanges(history) ==
    Cardinality({ k \in 2 .. Len(history) :
                    InConclusion(history[k]) # InConclusion(history[k - 1]) })

\* The cascade with the rule for a quiet timeline tried before the rule for
\* mystical text and long conclusion periods
OutcomeQuietFirst(has_mystical_breakdown, has_question_recovery, longest_conclusion, has_conclusion_entries, recovery_attempts, sustained_recovery, phase_changes) ==
    IF recovery_attempts = 0 /\ ~has_conclusion_entries THEN "no_breakdown"
    ELSE IF has_mystical_breakdown \/ longest_conclusion > LongConclusion
    THEN IF sustained_recovery \/ has_question_recovery THEN "recovered" ELSE "breakdown"
    ELSE IF recovery_attempts > 0 /\ sustained_recovery THEN "recovered"
    ELSE IF phase_changes >= ManyChanges THEN "resisted"
    ELSE IF has_conclusion_entries /\ recovery_attempts = 0 THEN "breakdown"
    ELSE "no_breakdown"

\* "IMPROVED: Better outcome determination"
Outcome(has_mystical_breakdown, has_question_recovery, longest_conclusion, has_conclusion_entries, recovery_attempts, sustained_recovery, phase_changes) ==
    IF has_mystical_breakdown \/ longest_conclusion > LongConclusion
    THEN IF sustained_recovery \/ has_question_recovery THEN "recovered" ELSE "breakdown"
    ELSE IF recovery_attempts = 0 /\ ~has_conclusion_entries THEN "no_breakdown"
    ELSE IF recovery_attempts > 0 /\ sustained_recovery THEN "recovered"
    ELSE IF phase_changes >= ManyChanges THEN "resisted"
    ELSE IF has_conclusion_entries /\ recovery_attempts = 0 THEN "breakdown"
    ELSE "no_breakdown"

\* A call that raises produces no record: the exception is carried in the
\* field "exception" and the set of written keys is empty.  A key of a dict is
\* present when it is in "keys"; the other fields then hold placeholders.
SnapshotKeys ==
    { "recovery_attempts", "successful_recoveries", "sustained_recovery",
      "recovery_sustained_duration", "phase_oscillations", "conversation_outcome",
      "total_conclusion_turns", "total_non_conclusion_turns", "conclusion_percentage",
      "longest_conclusion_period", "longest_non_conclusion_period",
      "has_transcendent_conclusion", "has_integration_conclusion",
      "reached_conclusion", "conclusion_turn", "conclusion_duration",
      "escaped_conclusion", "stuck_in_conclusion", "conclusion_loops",
      "closure_language_in_analysis", "transcendent_descriptors_count",
      "closure_theme_count", "silence_theme_count", "closure_dynamics_count",
      "breakdown_indicators_in_analysis" }

\* The empty dict {}
EmptyDict ==
    [ keys |-> {}, exception |-> "",
      recovery_attempts |-> 0, successful_recoveries |-> 0, sustained_recovery |-> 0,
      recovery_sustained_duration |-> 0, phase_oscillations |-> 0,
      conversation_outcome |-> "", total_conclusion_turns |-> 0,
      total_non_conclusion_turns |-> 0, conclusion_percentage |-> 0,
      longest_conclusion_period |-> 0, longest_non_conclusion_period |-> 0,
      has_transcendent_conclusion |-> 0, has_integration_conclusion |-> 0,
      reached_conclusion |-> 0, conclusion_turn |-> 0, conclusion_duration |-> 0,
      escaped_conclusion |-> 0, stuck_in_conclusion |-> 0, conclusion_loops |-> 0,
      closure_language_in_analysis |-> 0, transcendent_descriptors_count |-> 0,
      closure_theme_count |-> 0, silence_theme_count |-> 0,
      closure_dynamics_count |-> 0, breakdown_indicators_in_analysis |-> 0 ]

Raise(e) == [ EmptyDict EXCEPT !.exception = e ]
Raised(r) == r.exception # ""
ZeroDivisionError == Raise("ZeroDivisionError")

analyze_recovery_dynamics(history, thresholds) ==
    LET p == Periods(history)
        sustained_recovery == SustainedRecovery(history, p.recovery_attempts, thresholds)
        total_conclusion == SumSeq(p.conclusion_periods)
        total_non_conclusion == SumSeq(p.non_conclusion_periods)
        longest == IF Len(p.conclusion_periods) > 0 THEN MaxSeq(p.conclusion_periods) ELSE 0
        has_periods == Len(p.conclusion_periods) > 0 \/ Len(p.non_conclusion_periods) > 0
    IN  IF has_periods /\ total_conclusion + total_non_conclusion = 0
        THEN ZeroDivisionError
        ELSE [ EmptyDict EXCEPT
               !.keys = { "recovery_attempts", "successful_recoveries",
                          "sustained_recovery", "recovery_sustained_duration",
                          "phase_oscillations", "conversation_outcome",
                          "total_conclusion_turns", "total_non_conclusion_turns",
                          "conclusion_percentage", "longest_conclusion_period",
                          "longest_non_conclusion_period" },
               !.recovery_attempts = p.recovery_attempts,
               !.successful_recoveries = IF sustained_recovery THEN 1 ELSE 0,
               !.sustained_recovery = IF sustained_recovery THEN 1 ELSE 0,
               !.recovery_sustained_duration =
                   IF p.recovery_attempts > 0 THEN SustainedDuration(history) ELSE 0,
               !.phase_oscillations = PhaseChanges(history),
               !.conversation_outcome =
                   Outcome(\E k \in Indices(history) : history[k].analysis.mystical,
                           \E k \in Indices(history) : history[k].analysis.question_recovery,
                           longest,
                           \E k \in Indices(history) : InConclusion(history[k]),
                           p.recovery_attempts, sustained_recovery,
                           PhaseChanges(history)),
               !.total_conclusion_turns = total_conclusion,
               !.total_non_conclusion_turns = total_non_conclusion,
               !.conclusion_percentage =
                   IF has_periods
                   THEN Percentage(total_conclusion, total_conclusion + total_non_conclusion)
                   ELSE 0,
               !.longest_conclusion_period = longest,
               !.longest_non_conclusion_period =
                   IF Len(p.non_conclusion_periods) > 0
                   THEN MaxSeq(p.non_conclusion_periods) ELSE 0 ]

FirstConclusion(history) ==
    IF \E k \in Indices(history) : InConclusion(history[k])
    THEN CHOOSE k \in Indices(history) :
             InConclusion(history[k]) /\ \A j \in 1 .. (k - 1) : ~InConclusion(history[j])
    ELSE 0

LastConclusion(history) ==
    IF \E k \in Indices(history) : InConclusion(history[k])
    THEN CHOOSE k \in Indices(history) :
             InConclusion(history[k])
             /\ \A j \in (k + 1) .. Len(history) : ~InConclusion(history[j])
    ELSE 0

\* The snapshots in conclusion counted one by one
ConclusionSnapshots(history) ==
    Cardinality({ k \in Indices(history) : InConclusion(history[k]) })

\* Number of disjoint conclusion intervals
ConclusionLoops(history) ==
    Cardinality({ k \in Indices(history) :
                    InConclusion(history[k]) /\ (k = 1 \/ ~InConclusion(history[k - 1])) })

\* The sum over the snapshots of a count found in the analysis object
SumOver(history, field) ==
    SumSeq([ k \in Indices(history) |-> history[k].analysis[field] ])

analyze_snapshots(history, thresholds) ==
    IF Len(history) = 0
    THEN EmptyDict
    ELSE LET recovery_metrics == analyze_recovery_dynamics(history, thresholds)
             reached == FirstConclusion(history) > 0
             conclusion_timing ==
                 IF reached THEN history[FirstConclusion(history)].messageCountAtAnalysis
                 ELSE -1
             conclusion_duration ==
                 IF reached
                 THEN history[LastConclusion(history)].messageCountAtAnalysis
                      - conclusion_timing
                 ELSE 0
             total_messages == history[Len(history)].messageCountAtAnalysis
             escaped == reached /\ \E k \in Indices(history) :
                            /\ history[k].messageCountAtAnalysis > conclusion_timing
                            /\ ~InConclusion(history[k])
             stuck == reached /\
                 \/ conclusion_duration > thresholds.conclusion_duration_threshold
                 \/ /\ total_messages > 0
                    /\ conclusion_duration * One
                           > thresholds.conclusion_proportion_threshold * total_messages
         IN  IF Raised(recovery_metrics)
             THEN recovery_metrics
             ELSE [ recovery_metrics EXCEPT
                    !.keys = SnapshotKeys,
                    !.has_transcendent_conclusion =
                        IF \E k \in Indices(history) :
                               history[k].analysis.conversationPhase
                                   = "transcendent_conclusion"
                        THEN 1 ELSE 0,
                    !.has_integration_conclusion =
                        IF \E k \in Indices(history) :
                               history[k].analysis.conversationPhase
                                   = "integration_conclusion"
                        THEN 1 ELSE 0,
                    !.reached_conclusion = IF reached THEN 1 ELSE 0,
                    !.conclusion_turn = conclusion_timing,
                    !.conclusion_duration = conclusion_duration,
                    !.escaped_conclusion = IF escaped THEN 1 ELSE 0,
                    !.stuck_in_conclusion = IF stuck THEN 1 ELSE 0,
                    !.conclusion_loops = IF reached THEN ConclusionLoops(history) ELSE 0,
                    !.closure_language_in_analysis =
                        SumOver(history, "closure_language"),
                    !.transcendent_descriptors_count =
                        Cardinality({ k \in Indices(history) :
                                        history[k].analysis.transcendent_descriptor }),
                    !.closure_theme_count = SumOver(history, "closure_themes"),
                    !.silence_theme_count = SumOver(history, "silence_themes"),
                    !.closure_dynamics_count =
                        SumOver(history, "closure_dynamics"),
                    !.breakdown_indicators_in_analysis =
                        SumOver(history, "breakdown_indicators") ]

(***************************************************************************)
(* OutcomeClassifier: the final merge of                                   *)
(* parse_and_analyze_json_with_thresholds.  The record is a dict: a key    *)
(* that was never written is not in "keys".                                *)
(***************************************************************************)
\* metadata.update(message_analysis); metadata.update(snapshot_analysis): the
\* file-level fields, the message analysis and the snapshot analysis in one
\* dict (their keys are disjoint)
Update(file, message_analysis, snapshot_analysis) ==
    [ keys |-> { "filename", "total_messages", "error_count", "analysis_count" }
               \cup DOMAIN message_analysis \cup snapshot_analysis.keys,
      exception |-> "",
      termination_type |-> "",
      filename |-> file.filename,
      total_messages |-> Len(file.messages),
      error_count |-> file.error_count,
      analysis_count |-> Len(file.analysisHistory),
      current_breakdown_phase |-> message_analysis.current_breakdown_phase,
      meta_reflection_turn |-> message_analysis.meta_reflection_turn,
      competitive_escalation_turn |-> message_analysis.competitive_escalation_turn,
      mystical_breakdown_turn |-> message_analysis.mystical_breakdown_turn,
      full_5_phase_pattern |-> message_analysis.full_5_phase_pattern,
      meta_causes_breakdown |-> message_analysis.meta_causes_breakdown,
      meta_trigger_count |-> message_analysis.meta_trigger_count,
      phase_durations |-> message_analysis.phase_durations,
      peer_pressure_detected |-> message_analysis.peer_pressure_detected,
      peer_pressure_event_count |-> message_analysis.peer_pressure_event_count,
      closure_triggers_count |-> message_analysis.closure_triggers_count,
      bidirectional_influence_detected |->
          message_analysis.bidirectional_influence_detected,
      bidirectional_event_count |-> message_analysis.bidirectional_event_count,
      bidirectional_pairs |-> message_analysis.bidirectional_pairs,
      bidirectional_events |-> message_analysis.bidirectional_events,
      mystical_language_count |-> message_analysis.mystical_language_count,
      breakdown_occurred |-> message_analysis.breakdown_occurred,
      breakdown_confidence |-> message_analysis.breakdown_confidence,
      time_to_breakdown |-> message_analysis.time_to_breakdown,
      avg_response_latency |-> message_analysis.avg_response_latency,
      meta_reflection_density |-> message_analysis.meta_reflection_density,
      peer_pressure_intensity |-> message_analysis.peer_pressure_intensity,
      mystical_density |-> message_analysis.mystical_density,
      mirroring_coefficient |-> message_analysis.mirroring_coefficient,
      mean_forward_ratio |-> message_analysis.mean_forward_ratio,
      question_density |-> message_analysis.question_density,
      recovery_attempts |-> snapshot_analysis.recovery_attempts,
      successful_recoveries |-> snapshot_analysis.successful_recoveries,
      sustained_recovery |-> snapshot_analysis.sustained_recovery,
      recovery_sustained_duration |-> snapshot_analysis.recovery_sustained_duration,
      phase_oscillations |-> snapshot_analysis.phase_oscillations,
      conversation_outcome |-> snapshot_analysis.conversation_outcome,
      total_conclusion_turns |-> snapshot_analysis.total_conclusion_turns,
      total_non_conclusion_turns |-> snapshot_analysis.total_non_conclusion_turns,
      conclusion_percentage |-> snapshot_analysis.conclusion_percentage,
      longest_conclusion_period |-> snapshot_analysis.longest_conclusion_period,
      longest_non_conclusion_period |-> snapshot_analysis.longest_non_conclusion_period,
      has_transcendent_conclusion |-> snapshot_analysis.has_transcendent_conclusion,
      has_integration_conclusion |-> snapshot_analysis.has_integration_conclusion,
      reached_conclusion |-> snapshot_analysis.reached_conclusion,
      conclusion_turn |-> snapshot_analysis.conclusion_turn,
      conclusion_duration |-> snapshot_analysis.conclusion_duration,
      escaped_conclusion |-> snapshot_analysis.escaped_conclusion,
      stuck_in_conclusion |-> snapshot_analysis.stuck_in_conclusion,
      conclusion_loops |-> snapshot_analysis.conclusion_loops,
      closure_language_in_analysis |-> snapshot_analysis.closure_language_in_analysis,
      transcendent_descriptors_count |-> snapshot_analysis.transcendent_descriptors_count,
      closure_theme_count |-> snapshot_analysis.closure_theme_count,
      silence_theme_count |-> snapshot_analysis.silence_theme_count,
      closure_dynamics_count |-> snapshot_analysis.closure_dynamics_count,
      breakdown_indicators_in_analysis |->
          snapshot_analysis.breakdown_indicators_in_analysis ]

\* dict.get(key, default)
Get(record, key, default) == IF key \in record.keys THEN record[key] ELSE default

\* dict[key] = value
Put(record, key, value) ==
    [ record EXCEPT ![key] = value, !.keys = @ \cup {key} ]

ClosureIndicators(md) ==
    \/ Get(md, "closure_language_in_analysis", 0) > 2
    \/ Get(md, "transcendent_descriptors_count", 0) > 1
    \/ Get(md, "closure_theme_count", 0) > 0
    \/ Get(md, "silence_theme_count", 0) > 0
    \/ Get(md, "closure_dynamics_count", 0) > 2

StrongBreakdownFromAnalysis(md) ==
    \/ Get(md, "has_transcendent_conclusion", 0) = 1
    \/ Get(md, "has_integration_conclusion", 0) = 1
    \/ Get(md, "breakdown_indicators_in_analysis", 0) > 3

\* "termination_type" from the outcome the snapshot analysis wrote, 'natural'
\* for the default the local variable takes when the key is absent
TerminationFromOutcome(md) ==
    LET conversation_outcome == Get(md, "conversation_outcome", "no_breakdown")
    IN  Put(md, "termination_type",
            IF conversation_outcome = "breakdown" THEN "breakdown"
            ELSE IF conversation_outcome = "no_breakdown" THEN "natural"
            ELSE conversation_outcome)

\* The cascade with the test of error_count tried first
FallbackCascadeErrorsFirst(md) ==
    IF "conversation_outcome" \in md.keys
    THEN md
    ELSE IF Get(md, "error_count", 0) > 0
    THEN Put(md, "termination_type", "technical")
    ELSE IF Get(md, "breakdown_occurred", 0) = 1
    THEN Put(md, "termination_type", "breakdown")
    ELSE IF StrongBreakdownFromAnalysis(md)
    THEN Put(Put(Put(md, "termination_type", "breakdown"),
                 "breakdown_occurred", 1), "breakdown_confidence", "clear")
    ELSE IF Get(md, "reached_conclusion", 0) = 1 /\ ClosureIndicators(md)
    THEN Put(md, "termination_type", "breakdown")
    ELSE IF Get(md, "reached_conclusion", 0) = 1
    THEN Put(md, "termination_type", "natural")
    ELSE Put(md, "termination_type", "manual")

\* if 'conversation_outcome' not in metadata: ...
FallbackCascade(md) ==
    IF "conversation_outcome" \in md.keys
    THEN md
    ELSE IF Get(md, "breakdown_occurred", 0) = 1
    THEN Put(md, "termination_type", "breakdown")
    ELSE IF StrongBreakdownFromAnalysis(md)
    THEN Put(Put(Put(md, "termination_type", "breakdown"),
                 "breakdown_occurred", 1), "breakdown_confidence", "clear")
    ELSE IF Get(md, "reached_conclusion", 0) = 1 /\ ClosureIndicators(md)
    THEN Put(md, "termination_type", "breakdown")
    ELSE IF Get(md, "reached_conclusion", 0) = 1
    THEN Put(md, "termination_type", "natural")
    ELSE IF Get(md, "error_count", 0) > 0
    THEN Put(md, "termination_type", "technical")
    ELSE Put(md, "termination_type", "manual")

\* The upgrade made to write the termination as well
ConfidenceUpgradeTerminating(md) ==
    IF ClosureIndicators(md) /\ Get(md, "breakdown_confidence", "") = "no_breakdown"
    THEN Put(Put(Put(md, "breakdown_confidence", "likely"), "breakdown_occurred", 1),
             "termination_type", "breakdown")
    ELSE md

\* The upgrade without its test of the confidence it replaces
ConfidenceUpgradeOfAny(md) ==
    IF ClosureIndicators(md)
    THEN Put(Put(md, "breakdown_confidence", "likely"), "breakdown_occurred", 1)
    ELSE md

\* The upgrade writing the confidence and leaving the flag
ConfidenceUpgradeOfLabel(md) ==
    IF ClosureIndicators(md) /\ Get(md, "breakdown_confidence", "") = "no_breakdown"
    THEN Put(md, "breakdown_confidence", "likely")
    ELSE md

ConfidenceUpgrade(md) ==
    IF ClosureIndicators(md) /\ Get(md, "breakdown_confidence", "") = "no_breakdown"
    THEN Put(Put(md, "breakdown_confidence", "likely"), "breakdown_occurred", 1)
    ELSE md

\* The fields validate_json requires of the data of a file
required_fields == { "session", "session.messages", "session.participants" }

validate_json(file) == required_fields \subseteq file.fields

\* ConversationAnalyzer.__init__: the mapping the analyzer keeps,
\* "thresholds if thresholds else DEFAULT_THRESHOLDS.copy()"
ConversationAnalyzer(thresholds) ==
    IF thresholds.keys # {} THEN thresholds ELSE DEFAULT_THRESHOLDS

\* self.bert_analyzer.detect_phase_similarity(full_content), called for every
\* message outside any try block: whether the analysis of msgs ends in the
\* exception of a scorer that throws
ScorerRaises(msgs) == use_nlp /\ bert_analyzer = "raises" /\ msgs # << >>

\* self.thresholds['prevention_content_threshold'], which analyze_messages
\* reads for every conversation: whether the lookup ends in a KeyError
ThresholdKeyError(self_thresholds) ==
    "prevention_content_threshold" \notin self_thresholds.keys

\* The value returned (None for a file that fails validate_json), or the
\* exception that leaves the function
parse_and_analyze_json_with_thresholds(file, thresholds) ==
    IF ~validate_json(file)
    THEN None
    ELSE LET self_thresholds == ConversationAnalyzer(thresholds)
             message_analysis == analyze_messages(file.messages, self_thresholds)
             snapshot_analysis ==
                 analyze_snapshots(file.analysisHistory, self_thresholds)
         IN  IF ScorerRaises(file.messages)
             THEN Raise("RuntimeError")
             ELSE IF LatencyError(file.messages) # ""
             THEN Raise(LatencyError(file.messages))
             ELSE IF ThresholdKeyError(self_thresholds)
             THEN Raise("KeyError")
             ELSE IF Raised(snapshot_analysis)
             THEN snapshot_analysis
             ELSE ConfidenceUpgrade(FallbackCascade(TerminationFromOutcome(
                      Update(file, message_analysis, snapshot_analysis))))

\* parse_and_analyze_json: the same with the default thresholds
parse_and_analyze_json(file) ==
    parse_and_analyze_json_with_thresholds(file, DEFAULT_THRESHOLDS)

(***************************************************************************)
(* Specification Spec: a conversation grows by one message at a time and   *)
(* the message analysis is run again on the longer list.                   *)
(***************************************************************************)
\* The code reads the author only of a trigger and of a reply that qualifies:
\* closure (a trigger and a reply) comes from two participants, a mirroring
\* reply from the two who answer the first, everything else from the first.
Inputs ==
    { Msg(p, Closure) : p \in {"claude", "gpt"} }
    \cup { Msg(p, Mirror) : p \in {"gpt", "grok"} }
    \cup { Msg("claude", c) : c \in {Plain, MetaText, Mystical, Extreme, Compet} }

ScorerIdle ==
    /\ regex_score = 0
    /\ bert_score = None
    /\ use_nlp = FALSE
    /\ bert_analyzer = "none"
    /\ ensemble = None

\* No directory is being processed and no trigger has been examined
NoBatch ==
    /\ json_files = << >>
    /\ file_index = 0
    /\ all_metadata = << >>
    /\ test_thresholds = DEFAULT_THRESHOLDS
    /\ tasks = << >>
    /\ pending = {}
    /\ sensitivity_results = << >>
    /\ returned = None
    /\ peer_messages = << >>
    /\ trigger_turn = 0
    /\ peer_pressure = [ has_peer_pressure |-> FALSE, responders |-> << >> ]

NoFile ==
    /\ analysis_history = << >>
    /\ error_count = 0
    /\ metadata = EmptyDict

Init ==
    /\ ScorerIdle
    /\ NoFile
    /\ NoBatch
    /\ messages = << >>
    /\ detection = detect_breakdown_phase(messages, DEFAULT_THRESHOLDS)
    /\ results = MessageRecord(detection, messages, DEFAULT_THRESHOLDS)

AppendMessage(m) ==
    /\ Len(messages) < MaxLen
    /\ messages' = Append(messages, m)
    /\ detection' = detect_breakdown_phase(messages', DEFAULT_THRESHOLDS)
    /\ results' = MessageRecord(detection', messages', DEFAULT_THRESHOLDS)
    /\ UNCHANGED <<analysis_history, error_count, metadata,
                   regex_score, bert_score, use_nlp, ensemble, batch>>

Next == \E m \in Inputs : AppendMessage(m)

Spec == Init /\ [][Next]_vars

(***************************************************************************)
(* Specification SpecFile: one file is parsed and analysed; its snapshot   *)
(* history grows by one snapshot at a time and the file is analysed again. *)
(***************************************************************************)
Analysis(phase, mystical, question_recovery, closure_language, transcendent_descriptor, closure_themes, silence_themes, closure_dynamics, breakdown_indicators) ==
    [ conversationPhase |-> phase, mystical |-> mystical,
      question_recovery |-> question_recovery, closure_language |-> closure_language,
      transcendent_descriptor |-> transcendent_descriptor,
      closure_themes |-> closure_themes, silence_themes |-> silence_themes,
      closure_dynamics |-> closure_dynamics,
      breakdown_indicators |-> breakdown_indicators ]

\* conversationPhase "exploration", nothing else
Exploring == Analysis("exploration", FALSE, FALSE, 0, FALSE, 0, 0, 0, 0)
\* conversationPhase "conclusion"
Concluding == Analysis("conclusion", FALSE, FALSE, 0, FALSE, 0, 0, 0, 1)
\* conversationPhase "transcendent_conclusion"
Transcendent == Analysis("transcendent_conclusion", FALSE, FALSE, 1, TRUE, 0, 0, 0, 1)
\* "exploration", keyInsights ["mystical imagery appears"]
MysticalNote == Analysis("exploration", TRUE, FALSE, 0, TRUE, 0, 0, 0, 0)
\* "exploration", keyInsights ["a question led to recovery"]
QuestionRecovery == Analysis("exploration", FALSE, TRUE, 0, FALSE, 0, 0, 0, 0)
\* "exploration", emergentThemes ["closure"]
ClosureTheme == Analysis("exploration", FALSE, FALSE, 1, FALSE, 1, 0, 0, 0)

Analyses == {Exploring, Concluding, Transcendent, MysticalNote, QuestionRecovery,
             ClosureTheme}

Counts == {10, 20, 60}

Snapshot(n, a) == [ messageCountAtAnalysis |-> n, analysis |-> a ]

\* The conversations of the files: no signal, a mystical message after the
\* first turn, a meta-reflection answered by two peers, and an escalation
Corpus ==
    { <<Msg("claude", Plain), Msg("gpt", Plain), Msg("grok", Plain)>>,
      <<Msg("claude", Plain), Msg("claude", Mystical)>>,
      <<Msg("gpt", Plain), Msg("claude", MetaText), Msg("gpt", Mirror),
        Msg("grok", Mirror)>>,
      <<Msg("claude", Plain), Msg("gpt", Plain), Msg("grok", Extreme)>> }

File == [ filename |-> "session.json", fields |-> required_fields,
          messages |-> messages, analysisHistory |-> analysis_history,
          error_count |-> error_count ]

ErrorCounts == {0, 1}

InitFile ==
    /\ ScorerIdle
    /\ NoFile
    /\ NoBatch
    /\ messages = << >>
    /\ detection = detect_breakdown_phase(messages, DEFAULT_THRESHOLDS)
    /\ results = MessageRecord(detection, messages, DEFAULT_THRESHOLDS)

\* A file whose analysisHistory is still empty is parsed and analysed
ParseFile(conversation, errors) ==
    /\ messages = << >>
    /\ metadata = EmptyDict
    /\ messages' = conversation
    /\ error_count' = errors
    /\ analysis_history' = << >>
    /\ detection' = detect_breakdown_phase(messages', DEFAULT_THRESHOLDS)
    /\ results' = MessageRecord(detection', messages', DEFAULT_THRESHOLDS)
    /\ metadata' = parse_and_analyze_json_with_thresholds(File', DEFAULT_THRESHOLDS)
    /\ UNCHANGED <<regex_score, bert_score, use_nlp, ensemble, batch>>

\* The session records one more snapshot and the file is analysed again
AppendSnapshot(snapshot) ==
    /\ messages # << >>
    /\ Len(analysis_history) < MaxSnapshots
    /\ Len(analysis_history) > 0 =>
           snapshot.messageCountAtAnalysis
               >= analysis_history[Len(analysis_history)].messageCountAtAnalysis
    /\ analysis_history' = Append(analysis_history, snapshot)
    /\ UNCHANGED <<messages, detection, results, error_count,
                   regex_score, bert_score, use_nlp, ensemble, batch>>
    /\ metadata' = parse_and_analyze_json_with_thresholds(File', DEFAULT_THRESHOLDS)

NextFile ==
    \/ \E conversation \in Corpus, errors \in ErrorCounts : ParseFile(conversation, errors)
    \/ \E n \in Counts, a \in Analyses : AppendSnapshot(Snapshot(n, a))

SpecFile == InitFile /\ [][NextFile]_vars

(***************************************************************************)
(* Specification SpecRecovery: one file whose analysisHistory grows long   *)
(* enough for the phase to change three times.  The snapshots are the ones *)
(* the recovery analysis tells apart: in conclusion or not, with or        *)
(* without mystical text, with or without question and recovery.           *)
(***************************************************************************)
MaxTimeline == 4    \* longest phase timeline

PhaseAnalyses == {Exploring, Concluding, MysticalNote, QuestionRecovery}

\* messageCountAtAnalysis of the timeline: the counts of the snapshot
\* histories and one that ends a long conversation with a short stretch
TimelineCounts == Counts \cup {50}

\* The session records one more snapshot and the file is analysed again
ExtendTimeline(snapshot) ==
    /\ messages # << >>
    /\ Len(analysis_history) < MaxTimeline
    /\ Len(analysis_history) > 0 =>
           snapshot.messageCountAtAnalysis
               >= analysis_history[Len(analysis_history)].messageCountAtAnalysis
    /\ analysis_history' = Append(analysis_history, snapshot)
    /\ UNCHANGED <<messages, detection, results, error_count,
                   regex_score, bert_score, use_nlp, ensemble, batch>>
    /\ metadata' = parse_and_analyze_json_with_thresholds(File', DEFAULT_THRESHOLDS)

NextRecovery ==
    \/ \E conversation \in Corpus : ParseFile(conversation, 0)
    \/ \E n \in TimelineCounts, a \in PhaseAnalyses : ExtendTimeline(Snapshot(n, a))

SpecRecovery == InitFile /\ [][NextRecovery]_vars

(***************************************************************************)
(* Specification SpecPeer: detect_peer_pressure_response on conversations  *)
(* long enough to have turns beyond the lookahead of a trigger.            *)
(***************************************************************************)
MaxTurns == 7    \* longest conversation handed to the peer-pressure detector

\* A mirroring message of each of two participants and a plain one of a third
PeerInputs == { Msg("claude", Mirror), Msg("gpt", Mirror), Msg("grok", Plain) }

InitPeer == InitFile

\* One more message has been posted and a caller examines the turn t
DetectPeerPressure(m, t) ==
    /\ Len(peer_messages) < MaxTurns
    /\ t \in 0 .. Len(peer_messages)
    /\ peer_messages' = Append(peer_messages, m)
    /\ trigger_turn' = t
    /\ peer_pressure' = detect_peer_pressure_response(peer_messages', t, DEFAULT_THRESHOLDS)
    /\ UNCHANGED <<messages, detection, results, analysis_history, error_count,
                   metadata, regex_score, bert_score, use_nlp, ensemble,
                   bert_analyzer, json_files, file_index, all_metadata,
                   test_thresholds, sensitivity>>

NextPeer == \E m \in PeerInputs, t \in 0 .. MaxTurns - 1 : DetectPeerPressure(m, t)

SpecPeer == InitPeer /\ [][NextPeer]_vars

(***************************************************************************)
(* Specification SpecEnsemble: compute_ensemble_score applied to a         *)
(* symbolic signal (a 0/1 flag or a count) and a semantic score or None.   *)
(***************************************************************************)
Signals == { k * One : k \in 0 .. MaxSignal }

SemanticScores == { Some(10 * k) : k \in 0 .. 10 }

InitEnsemble ==
    /\ regex_score \in Signals
    /\ bert_score \in {None} \cup SemanticScores
    /\ use_nlp \in BOOLEAN
    /\ bert_analyzer = IF use_nlp THEN "loaded" ELSE "none"
    /\ ensemble = None
    /\ NoFile
    /\ NoBatch
    /\ messages = << >>
    /\ detection = detect_breakdown_phase(messages, DEFAULT_THRESHOLDS)
    /\ results = MessageRecord(detection, messages, DEFAULT_THRESHOLDS)

ComputeEnsemble ==
    /\ ensemble = None
    /\ ensemble' = Some(compute_ensemble_score(regex_score, bert_score))
    /\ UNCHANGED <<messages, detection, results, analysis_history, error_count,
                   metadata, regex_score, bert_score, use_nlp, batch>>

NextEnsemble == ComputeEnsemble

SpecEnsemble == InitEnsemble /\ [][NextEnsemble]_vars

(***************************************************************************)
(* Specification SpecBatch: the loop of process_directory (and of a        *)
(* sensitivity worker, which runs the same loop under its own thresholds)  *)
(* goes through the sorted list of files, one file at a step.              *)
(***************************************************************************)
MaxFiles == 3

\* sorted(glob.glob('*.json')): the names in the order of the list
FileNames == <<"session-1.json", "session-2.json", "session-3.json",
               "session-4.json", "session-5.json">>

JsonData(fields, conversation, history) ==
    [ filename |-> "", fields |-> fields, messages |-> conversation,
      analysisHistory |-> history, error_count |-> 0 ]

\* What a file of the directory holds: a conversation without snapshots, a
\* conversation with a timestamp that is no ISO string, a conversation with
\* one snapshot, data without 'session', a session without
\* 'participants', and a history of one snapshot taken in conclusion (the
\* snapshot analysis of which divides by zero)
Directory ==
    { JsonData(required_fields,
               <<Msg("claude", Plain), Stamped(Msg("claude", Mystical), IsoTime(7))>>,
               << >>),
      JsonData(required_fields,
               <<Msg("claude", Plain), Stamped(Msg("gpt", Plain), NotATime),
                 Stamped(Msg("grok", Plain), IsoTime(8))>>, << >>),
      JsonData(required_fields,
               <<Msg("gpt", Plain), Msg("claude", MetaText), Msg("gpt", Mirror),
                 Msg("grok", Mirror)>>, <<Snapshot(10, Exploring)>>),
      JsonData({}, << >>, << >>),
      JsonData({"session", "session.messages"}, <<Msg("claude", Plain)>>, << >>),
      JsonData(required_fields,
               <<Msg("claude", Plain), Msg("gpt", Plain)>>,
               <<Snapshot(10, Concluding)>>) }

\* The k-th file of the sorted list carries the k-th name
Named(s) == [ k \in 1 .. Len(s) |-> [ s[k] EXCEPT !.filename = FileNames[k] ] ]

\* A mapping that names only the thresholds of names
Subset(thresholds, names) ==
    [ keys |-> names,
      escalation_threshold |->
          IF "escalation_threshold" \in names THEN thresholds.escalation_threshold ELSE 0,
      peer_pressure_min_responders |->
          IF "peer_pressure_min_responders" \in names
          THEN thresholds.peer_pressure_min_responders ELSE 0,
      prevention_content_threshold |->
          IF "prevention_content_threshold" \in names
          THEN thresholds.prevention_content_threshold ELSE 0,
      recovery_duration_threshold |->
          IF "recovery_duration_threshold" \in names
          THEN thresholds.recovery_duration_threshold ELSE 0,
      recovery_proportion_threshold |->
          IF "recovery_proportion_threshold" \in names
          THEN thresholds.recovery_proportion_threshold ELSE 0,
      conclusion_duration_threshold |->
          IF "conclusion_duration_threshold" \in names
          THEN thresholds.conclusion_duration_threshold ELSE 0,
      conclusion_proportion_threshold |->
          IF "conclusion_proportion_threshold" \in names
          THEN thresholds.conclusion_proportion_threshold ELSE 0 ]

\* test_thresholds = DEFAULT_THRESHOLDS.copy(); test_thresholds[name] = value
WithEscalation(e) == [ DEFAULT_THRESHOLDS EXCEPT !.escalation_threshold = e ]

\* The mappings a caller hands over: the defaults (process_directory), a
\* worker's copy with one value replaced, the empty mapping, and a mapping
\* that names the escalation threshold only
ThresholdMappings ==
    { DEFAULT_THRESHOLDS, WithEscalation(20), Subset(DEFAULT_THRESHOLDS, {}),
      Subset(WithEscalation(20), {"escalation_threshold"}) }

InitBatch ==
    /\ ScorerIdle
    /\ NoFile
    /\ NoBatch
    /\ messages = << >>
    /\ detection = detect_breakdown_phase(messages, DEFAULT_THRESHOLDS)
    /\ results = MessageRecord(detection, messages, DEFAULT_THRESHOLDS)

\* The directory is listed and the analyzer set up: the semantic scorer is
\* either not loaded (use_nlp is False) or loaded and throwing when called
ListDirectory(files, thresholds, nlp) ==
    /\ json_files = << >>
    /\ json_files' = Named(files)
    /\ test_thresholds' = thresholds
    /\ use_nlp' = nlp
    /\ bert_analyzer' = IF nlp THEN "raises" ELSE "none"
    /\ UNCHANGED <<messages, detection, results, analysis_history, error_count,
                   metadata, regex_score, bert_score, ensemble,
                   file_index, all_metadata, sensitivity,
                   influence>>

\* The loop without its try block: what an exception leaves is kept
CollectRaised(collected, outcome) ==
    IF outcome = None THEN collected ELSE Append(collected, outcome)

\* if metadata: all_metadata.append(metadata); an exception is logged
Collect(collected, outcome) ==
    IF outcome = None THEN collected
    ELSE IF Raised(outcome) THEN collected
    ELSE Append(collected, outcome)

\* One pass of "for i, filepath in enumerate(json_files)"
ProcessFile ==
    /\ file_index < Len(json_files)
    /\ all_metadata' =
           Collect(all_metadata,
                   parse_and_analyze_json_with_thresholds(
                       json_files[file_index + 1], test_thresholds))
    /\ file_index' = file_index + 1
    /\ UNCHANGED <<messages, detection, results, analysis_history, error_count,
                   metadata, regex_score, bert_score, use_nlp, ensemble,
                   bert_analyzer, json_files, test_thresholds, sensitivity,
                   influence>>

NextBatch ==
    \/ \E n \in 1 .. MaxFiles : \E files \in [ 1 .. n -> Directory ] :
           \E thresholds \in ThresholdMappings, nlp \in BOOLEAN :
               ListDirectory(files, thresholds, nlp)
    \/ ProcessFile

SpecBatch == InitBatch /\ [][NextBatch]_vars

(***************************************************************************)
(* Specification SpecSensitivity: run_sensitivity_analysis hands its tasks *)
(* to a pool of workers and takes their results in the order in which the  *)
(* workers complete (imap_unordered), then sorts and returns.              *)
(***************************************************************************)
MaxValues == 3

\* thresholds_to_test
thresholds_to_test == <<"escalation_threshold", "prevention_content_threshold">>

\* SENSITIVITY_RANGES[threshold_name], its first MaxValues values
SENSITIVITY_RANGES(threshold_name) ==
    SubSeq(IF threshold_name = "escalation_threshold"
           THEN <<20, 25, 30, 35, 40>> ELSE <<2, 3, 4, 5>>, 1, MaxValues)

\* for threshold_name in thresholds_to_test:
\*     for test_value in SENSITIVITY_RANGES[threshold_name]: tasks.append(...)
RECURSIVE PrepareTasks(_)
PrepareTasks(n) ==
    IF n = 0 THEN << >>
    ELSE PrepareTasks(n - 1)
             \o [ v \in 1 .. Len(SENSITIVITY_RANGES(thresholds_to_test[n])) |->
                    [ threshold_name |-> thresholds_to_test[n],
                      test_value |-> SENSITIVITY_RANGES(thresholds_to_test[n])[v] ] ]

\* The worker's loop over the files: test_metadata
RECURSIVE TestMetadata(_, _, _)
TestMetadata(files, n, thresholds) ==
    IF n = 0 THEN << >>
    ELSE Collect(TestMetadata(files, n - 1, thresholds),
                 parse_and_analyze_json_with_thresholds(files[n], thresholds))

\* The records of df that satisfy df[column] == value; a record without the
\* key holds NaN there
Matching(test_metadata, value) ==
    SelectSeq(test_metadata, LAMBDA md : Get(md, "conversation_outcome", "NaN") = value)

\* The metrics the worker computes from the records of test_metadata: the
\* result (None when no file gave a record), or the exception "KeyError"
\* when df has no column 'conversation_outcome'.  A rate is the pair
\* <<numerator, denominator>>.
CalculateMetrics(task, test_metadata) ==
    LET df == Indices(test_metadata)
        with_meta == { i \in df : test_metadata[i].meta_reflection_turn > 0 }
        turns == [ i \in df |-> IF i \in with_meta
                                THEN test_metadata[i].meta_reflection_turn ELSE 0 ]
        detected == [ i \in df |-> test_metadata[i].peer_pressure_detected ]
    IN  IF test_metadata = << >>
        THEN [ exception |-> "", threshold_name |-> task.threshold_name,
               test_value |-> task.test_value, result |-> None ]
        ELSE IF \A i \in df : "conversation_outcome" \notin test_metadata[i].keys
        THEN [ exception |-> "KeyError", threshold_name |-> task.threshold_name,
               test_value |-> task.test_value, result |-> None ]
        ELSE [ exception |-> "", threshold_name |-> task.threshold_name,
               test_value |-> task.test_value,
               result |-> Some(
                 [ threshold_value |-> task.test_value,
                   breakdown_rate |->
                       <<Len(Matching(test_metadata, "breakdown")), Len(test_metadata)>>,
                   recovery_rate |->
                       <<Len(Matching(test_metadata, "recovered")), Len(test_metadata)>>,
                   peer_pressure_rate |-> <<SumSeq(detected), Len(test_metadata)>>,
                   mean_breakdown_turn |->
                       IF with_meta # {}
                       THEN <<SumSeq(turns), Cardinality(with_meta)>> ELSE <<0, 1>>,
                   total_sessions |-> Len(test_metadata) ]) ]

\* What the worker returns for a task, under test_thresholds =
\* DEFAULT_THRESHOLDS.copy() with test_thresholds[threshold_name] = test_value
process_single_threshold_value_nlp(task, files) ==
    CalculateMetrics(task,
        TestMetadata(files, Len(files),
            [ DEFAULT_THRESHOLDS EXCEPT ![task.threshold_name] = task.test_value ]))

\* if result: sensitivity_results[threshold_name].append(result)
AppendResult(collected, outcome) ==
    IF outcome.result = None THEN collected
    ELSE [ collected EXCEPT ![outcome.threshold_name] = Append(@, outcome.result[1]) ]

\* The sequential fallback: every task of the list again, in the order of the
\* list, an exception of a task being logged
TryTask(collected, outcome) ==
    IF outcome.exception # "" THEN collected ELSE AppendResult(collected, outcome)

RECURSIVE Fallback(_, _, _, _)
Fallback(task_list, n, files, collected) ==
    IF n = 0 THEN collected
    ELSE TryTask(Fallback(task_list, n - 1, files, collected),
                 process_single_threshold_value_nlp(task_list[n], files))

\* list.sort(key=lambda x: x['threshold_value']): a stable sort
RECURSIVE SortByValue(_)
InsertByValue(sorted, r) ==
    LET after == Cardinality({ i \in 1 .. Len(sorted) :
                                 sorted[i].threshold_value <= r.threshold_value })
    IN  SubSeq(sorted, 1, after) \o <<r>> \o SubSeq(sorted, after + 1, Len(sorted))

\* The lists as they were collected, left in the order of completion
Unsorted(list) == list

SortByValue(list) ==
    IF list = << >> THEN << >>
    ELSE InsertByValue(SortByValue(SubSeq(list, 1, Len(list) - 1)), list[Len(list)])

\* The directories the analysis is run on: one with a file that has
\* snapshots, one of files without snapshots, one of files that give no record
Directories ==
    { <<JsonData(required_fields,
                 <<Msg("gpt", Plain), Msg("claude", MetaText), Msg("gpt", Mirror),
                   Msg("grok", Mirror)>>, <<Snapshot(10, Exploring)>>),
        JsonData(required_fields,
                 <<Msg("claude", Plain), Msg("claude", Mystical)>>, << >>)>>,
      <<JsonData(required_fields,
                 <<Msg("claude", Plain), Msg("claude", Mystical)>>, << >>)>>,
      <<JsonData({}, << >>, << >>),
        JsonData(required_fields, <<Msg("claude", Plain)>>,
                 <<Snapshot(10, Concluding)>>)>> }

InitSensitivity ==
    /\ ScorerIdle
    /\ NoFile
    /\ NoBatch
    /\ messages = << >>
    /\ detection = detect_breakdown_phase(messages, DEFAULT_THRESHOLDS)
    /\ results = MessageRecord(detection, messages, DEFAULT_THRESHOLDS)

\* run_sensitivity_analysis is called: the tasks are prepared and handed to
\* the pool
StartSensitivity(files) ==
    /\ tasks = << >>
    /\ json_files' = Named(files)
    /\ tasks' = PrepareTasks(Len(thresholds_to_test))
    /\ pending' = Indices(tasks')
    /\ sensitivity_results' = [ name \in SeqRange(thresholds_to_test) |-> << >> ]
    /\ UNCHANGED <<messages, detection, results, analysis_history, error_count,
                   metadata, regex_score, bert_score, use_nlp, ensemble,
                   bert_analyzer, file_index, all_metadata, test_thresholds,
                   returned,
                   influence>>

\* The pool yields the result of a task that has completed, whichever that
\* is; the exception of a worker leaves the loop and the sequential fallback
\* goes through all the tasks
PoolYields(t) ==
    /\ returned = None
    /\ t \in pending
    /\ \E outcome \in { process_single_threshold_value_nlp(tasks[t], json_files) } :
           IF outcome.exception # ""
           THEN /\ sensitivity_results' =
                       Fallback(tasks, Len(tasks), json_files, sensitivity_results)
                /\ pending' = {}
           ELSE /\ sensitivity_results' = AppendResult(sensitivity_results, outcome)
                /\ pending' = pending \ {t}
    /\ UNCHANGED <<messages, detection, results, analysis_history, error_count,
                   metadata, regex_score, bert_score, use_nlp, ensemble,
                   bert_analyzer, json_files, file_index, all_metadata,
                   test_thresholds, tasks, returned,
                   influence>>

\* Every result is in: the lists are sorted and the mapping is returned
ReturnResults ==
    /\ tasks # << >>
    /\ pending = {}
    /\ returned = None
    /\ returned' = Some([ name \in DOMAIN sensitivity_results |->
                              SortByValue(sensitivity_results[name]) ])
    /\ UNCHANGED <<messages, detection, results, analysis_history, error_count,
                   metadata, regex_score, bert_score, use_nlp, ensemble,
                   bert_analyzer, json_files, file_index, all_metadata,
                   test_thresholds, tasks, pending, sensitivity_results,
                   influence>>

NextSensitivity ==
    \/ \E files \in Directories : StartSensitivity(files)
    \/ \E t \in pending : PoolYields(t)
    \/ ReturnResults

SpecSensitivity == InitSensitivity /\ [][NextSensitivity]_vars

(***************************************************************************)
(* Specification SpecPool: run_sensitivity_analysis with a pool that can   *)
(* fail.  "except Exception" around the pool catches whatever the pool     *)
(* raises while results are being read from it: the exception of a worker  *)
(* or one of the pool itself (a worker that died, a broken pipe).          *)
(***************************************************************************)
\* The pool raises while results are outstanding: the loop over the results
\* is left and the sequential fallback goes through all the tasks
PoolRaises ==
    /\ returned = None
    /\ tasks # << >>
    /\ pending # {}
    /\ sensitivity_results' = Fallback(tasks, Len(tasks), json_files, sensitivity_results)
    /\ pending' = {}
    /\ UNCHANGED <<messages, detection, results, analysis_history, error_count,
                   metadata, regex_score, bert_score, use_nlp, ensemble,
                   bert_analyzer, json_files, file_index, all_metadata,
                   test_thresholds, tasks, returned,
                   influence>>

NextPool ==
    \/ NextSensitivity
    \/ PoolRaises

SpecPool == InitSensitivity /\ [][NextPool]_vars

(***************************************************************************)
(* Specification SpecDurations: the conversation of Spec, whose messages   *)
(* may also be a text that is both a meta-reflection and mystical content  *)
(* (a closing reflection that ends in a symbol matches a meta-reflection   *)
(* pattern and an emoji/symbol pattern).                                   *)
(***************************************************************************)
DurationInputs ==
    Inputs \cup { Msg("claude", Content(TRUE, TRUE, 0, FALSE, FALSE, FALSE)) }

NextDurations == \E m \in DurationInputs : AppendMessage(m)

SpecDurations == Init /\ [][NextDurations]_vars

(***************************************************************************)
(* Properties of the phase detector (specification Spec).                  *)
(***************************************************************************)
DurationSum(d) ==
    d.phase1_duration + d.phase2_duration + d.phase3_duration
        + d.phase4_duration + d.phase5_duration

\* C1: for every message list the five phase durations returned by
\* detect_breakdown_phase sum exactly to len(messages).  The detector does not
\* keep this: a phase entered before an earlier one leaves two buckets that
\* cover the same turns, and a competitive entry with no earlier phase leaves
\* the turns before it in no bucket.
C1_DurationConservation ==
    DurationSum(detection.phase_durations) = Len(messages)

(***************************************************************************)
(* Properties of the final record (specification SpecFile).                *)
(***************************************************************************)
Outcomes == {"no_breakdown", "breakdown", "recovered", "resisted"}

\* The call on the file returned a record
Returned == metadata.keys # {}

\* C2: every record returned by parse_and_analyze_json_with_thresholds carries
\* conversation_outcome with one of the four outcomes, "no_breakdown" when the
\* file has no snapshot.  The record of a file without snapshots has no such
\* key: the default of line 1940 goes to a local variable only.
C2_OutcomeTotality ==
    Returned =>
        /\ "conversation_outcome" \in metadata.keys
        /\ metadata.conversation_outcome \in Outcomes
        /\ (analysis_history = << >> => metadata.conversation_outcome = "no_breakdown")

(***************************************************************************)
(* Properties of the ensemble scorer (specification SpecEnsemble).         *)
(***************************************************************************)
\* C3: with no semantic score, or with the semantic scorer disabled,
\* compute_ensemble_score(s, .) returns min(1.0, s), so the fused score is
\* within [0, 1].  The function returns s itself: a count above 1 is not capped.
C3_EnsembleFallback ==
    (ensemble # None /\ (bert_score = None \/ ~use_nlp)) =>
        /\ ensemble[1] = Min(One, regex_score)
        /\ ensemble[1] \in 0 .. One

(***************************************************************************)
(* Properties of the phase detector, continued (specification Spec).       *)
(***************************************************************************)
\* C4: once detect_breakdown_phase has set the meta-reflection start to a turn
\* t, the detection run on the list with one more trailing message sets the
\* same start (and so, by induction, with any number of trailing messages); a
\* later meta-reflection match adds one to meta_trigger_count and a message
\* that is no match leaves the count as it is.
C4_MonotonicMetaStart ==
    [][ detection.meta_reflection_started # -1 =>
          /\ detection'.meta_reflection_started = detection.meta_reflection_started
          /\ detection'.phases.meta_reflection_trigger
                 = detection.phases.meta_reflection_trigger
          /\ detection'.meta_trigger_count
                 = detection.meta_trigger_count
                   + (IF MetaDetected(messages'[Len(messages')]) THEN 1 ELSE 0)
      ]_vars

\* A second meta-reflection match arrived after the start was set at turn 0
C4_Witness ==
    /\ Len(messages) = 3
    /\ detection.meta_reflection_started = 0
    /\ detection.meta_trigger_count = 2
    /\ MetaDetected(messages[3])

(***************************************************************************)
(* Properties of the bidirectional analysis (specification Spec).          *)
(***************************************************************************)
EventPair(event) == { event.participants[1], event.participants[2] }

DistinctParticipants(msgs) == { msgs[k].participantId : k \in 1 .. Len(msgs) }

\* C(n, 2)
Choose2(n) == (n * (n - 1)) \div 2

\* participant_influence_map has an entry "a influenced b"
HasEdge(map, a, b) ==
    \E k \in 1 .. Len(map) : map[k].trigger = a /\ map[k].influenced = b

\* C5: detect_bidirectional_influence records at most one event per unordered
\* pair of participants, only for pairs with an influence edge in each
\* direction; bidirectional_pairs is at most C(n, 2) for n distinct
\* participants; bidirectional_influence_detected is 1 exactly when the event
\* count is above 0.
C5_BidirectionalDedup ==
    LET events == results.bidirectional_events
        map == FirstPass(messages, 0, << >>, DEFAULT_THRESHOLDS)
    IN  /\ \A i, j \in 1 .. Len(events) :
               i # j => EventPair(events[i]) # EventPair(events[j])
        /\ \A i \in 1 .. Len(events) :
               /\ Cardinality(EventPair(events[i])) = 2
               /\ HasEdge(map, events[i].participants[1], events[i].participants[2])
               /\ HasEdge(map, events[i].participants[2], events[i].participants[1])
        /\ results.bidirectional_event_count = Len(events)
        /\ results.bidirectional_pairs = results.bidirectional_event_count
        /\ results.bidirectional_pairs
               <= Choose2(Cardinality(DistinctParticipants(messages)))
        /\ (results.bidirectional_influence_detected = 1
               <=> results.bidirectional_event_count > 0)
        /\ results.bidirectional_influence_detected \in {0, 1}

\* A pair that influenced each other was recorded, and the map holds the
\* pair's edge a second time (the entry the dedup skips)
C5_Witness ==
    LET map == FirstPass(messages, 0, << >>, DEFAULT_THRESHOLDS)
    IN  /\ results.bidirectional_event_count = 1
        /\ results.bidirectional_influence_detected = 1
        /\ \E a, b \in Participants :
               a # b /\ HasEdge(map, a, b) /\ HasEdge(map, b, a)

(***************************************************************************)
(* Sensitivity to escalation_threshold (specification Spec).               *)
(***************************************************************************)

\* The conversation is flagged with competitive escalation under threshold e
CompetitiveEntered(msgs, e) ==
    detect_breakdown_phase(msgs, WithEscalation(e)).competitive_started # -1

\* The thresholds of the sensitivity range under which the conversation is flagged
FlaggedUnder(msgs) == { e \in EscalationRange : CompetitiveEntered(msgs, e) }

\* C6: for two configurations that differ only in escalation_threshold,
\* e1 < e2, a conversation that enters competitive_escalation under e2 enters
\* it under e1 as well; so over any fixed set of conversations the number
\* flagged does not grow when the threshold is raised.
C6_ThresholdMonotonicity ==
    \A flagged \in {FlaggedUnder(messages)} :
        \A e1, e2 \in EscalationRange :
            (e1 < e2 /\ e2 \in flagged) => e1 \in flagged

\* The threshold decides: flagged under 0.3 and below, not under 0.35 and above
C6_Witness ==
    /\ FlaggedUnder(messages) = {20, 25, 30}
    /\ detection.competitive_started # -1

(***************************************************************************)
(* Properties of the message record (specification Spec).                  *)
(***************************************************************************)
\* The first turn whose message is a meta-reflection match is t
FirstMetaAt(msgs, t) ==
    /\ t \in Turns(msgs)
    /\ MetaDetected(At(msgs, t))
    /\ \A u \in 0 .. (t - 1) : ~MetaDetected(At(msgs, u))

\* Within the five turns after t, at least peer_pressure_min_responders
\* distinct participants other than the author of turn t mirror or affirm
PeersAnswer(msgs, t) ==
    Cardinality({ At(msgs, u).participantId :
                    u \in { v \in (t + 1) .. Min(t + 5, Len(msgs) - 1) :
                              /\ At(msgs, v).participantId # At(msgs, t).participantId
                              /\ Qualifies(At(msgs, v)) } })
        >= DEFAULT_THRESHOLDS.peer_pressure_min_responders

\* C7: when the first meta-reflection message is at turn t and enough peers
\* answer it within five turns, the record has meta_reflection_turn = t, the
\* peer_response phase entered at t + 1, peer_pressure_detected = 1 and
\* peer_pressure_event_count >= 1.  Stated for a trigger after turn 0 (the
\* spec's case has it at turn 2; turn 0 is the case of C8).  The record's
\* peer-pressure fields come from the scan of closure-vibe messages alone, so a
\* meta-reflection answered by two mirroring peers leaves them at 0.
C7_PeerResponseToMetaTrigger ==
    \A t \in 1 .. (Len(messages) - 1) :
        (FirstMetaAt(messages, t) /\ PeersAnswer(messages, t)) =>
            /\ results.meta_reflection_turn = t
            /\ detection.phases.peer_response = t + 1
            /\ results.peer_pressure_detected = 1
            /\ results.peer_pressure_event_count >= 1

\* C8: meta_reflection_turn, competitive_escalation_turn and
\* mystical_breakdown_turn are the 0-based turn at which the phase was first
\* entered, turn 0 included, and -1 exactly when the phase was never entered; a
\* conversation whose first mystical message is at turn t has
\* mystical_breakdown_turn = t and mystical_language_count >= 1.  A phase
\* entered at turn 0 is reported as -1 ("if phases[...] > 0 else -1").
C8_FirstTriggerTurns ==
    /\ results.meta_reflection_turn = detection.meta_reflection_started
    /\ results.competitive_escalation_turn = detection.competitive_started
    /\ results.mystical_breakdown_turn = detection.mystical_started
    /\ \A t \in Turns(messages) :
           ( /\ is_mystical_content(At(messages, t))
             /\ \A u \in 0 .. (t - 1) : ~is_mystical_content(At(messages, u)) )
           => /\ results.mystical_breakdown_turn = t
              /\ results.mystical_language_count >= 1

\* The phases in their nominal order
PhaseRank(phase) ==
    CASE phase = "sustained_engagement" -> 1
      [] phase = "meta_reflection" -> 2
      [] phase = "peer_response" -> 3
      [] phase = "competitive_escalation" -> 4
      [] phase = "mystical_breakdown" -> 5

\* The phases the detection entered, sustained_engagement being the initial one
PhasesReached(det) ==
    {"sustained_engagement"}
    \cup (IF det.meta_reflection_started # -1 THEN {"meta_reflection"} ELSE {})
    \cup (IF det.peer_response_started # -1 THEN {"peer_response"} ELSE {})
    \cup (IF det.competitive_started # -1 THEN {"competitive_escalation"} ELSE {})
    \cup (IF det.mystical_started # -1 THEN {"mystical_breakdown"} ELSE {})

\* C9: current_breakdown_phase is the most advanced phase reached, in the
\* nominal order, whatever the order of detection.  The detector reports the
\* phase entered last: a first meta-reflection after mystical content reports
\* meta_reflection.
C9_MostAdvancedPhase ==
    /\ results.current_breakdown_phase \in PhasesReached(detection)
    /\ \A phase \in PhasesReached(detection) :
           PhaseRank(phase) <= PhaseRank(results.current_breakdown_phase)

\* C10: full_5_phase_pattern is 1 exactly when at least 4 of the five phases
\* were reached, sustained_engagement counting as reached at turn 0.  The
\* detector counts the phases whose recorded turn is above 0, which never
\* counts sustained_engagement nor a phase entered at turn 0.
C10_FullPatternFourOfFive ==
    results.full_5_phase_pattern = 1
        <=> Cardinality(PhasesReached(detection)) >= FullPatternMin

(***************************************************************************)
(* Failure isolation of the batch loop (specification SpecBatch).          *)
(***************************************************************************)
\* What the analysis of the k-th file of the list gives
OutcomeOf(k) ==
    parse_and_analyze_json_with_thresholds(json_files[k], test_thresholds)

\* The files the loop has been through whose analysis returned a record
Succeeded ==
    { k \in 1 .. file_index :
          /\ validate_json(json_files[k])
          /\ ~Raised(OutcomeOf(k)) }

\* C11: a file that lacks a required field or whose analysis raises leaves
\* no record and does not stop the loop: the collected list holds exactly
\* the records of the files that succeeded, in the order of the file list,
\* whatever failed among the files the loop has been through.
C11_BatchFailureIsolation ==
    /\ file_index <= Len(json_files)
    /\ Len(all_metadata) = Cardinality(Succeeded)
    /\ \A k \in Succeeded :
           all_metadata[Cardinality({ h \in Succeeded : h <= k })] = OutcomeOf(k)

\* A file without 'session', then a file whose analysis raises, then a file
\* that is analysed: the list holds the record of the third file only
C11_Witness ==
    /\ file_index = 3
    /\ Len(json_files) = 3
    /\ ~validate_json(json_files[1])
    /\ validate_json(json_files[2])
    /\ Raised(OutcomeOf(2))
    /\ Len(all_metadata) = 1
    /\ all_metadata[1].filename = FileNames[3]

(***************************************************************************)
(* A failing semantic scorer (specification SpecBatch).                    *)
(***************************************************************************)
\* The analysis of the file succeeds when the semantic scorer is left out
SucceedsOnRegex(file) ==
    /\ validate_json(file)
    /\ ~ThresholdKeyError(ConversationAnalyzer(test_thresholds))
    /\ ~Raised(analyze_snapshots(file.analysisHistory,
                                 ConversationAnalyzer(test_thresholds)))

\* C12: a semantic scorer that could not be loaded, or that throws when it
\* is called during an analysis, is never fatal: the record of the file is
\* produced all the same, and with the scorer out the fused decision on a
\* message is the decision of its regular expressions.
C12_ScorerFailureNotFatal ==
    \A k \in 1 .. file_index :
        SucceedsOnRegex(json_files[k]) =>
            /\ \E j \in 1 .. Len(all_metadata) :
                   all_metadata[j].filename = json_files[k].filename
            /\ ~use_nlp =>
                   \A i \in 1 .. Len(json_files[k].messages) :
                       MetaDetected(json_files[k].messages[i])
                           = json_files[k].messages[i].content.meta

(***************************************************************************)
(* A thresholds mapping that names a subset (specification SpecBatch).     *)
(***************************************************************************)
\* The supplied value of each threshold the mapping names, the default of
\* every other
MergedOverDefaults(thresholds) ==
    [ keys |-> ThresholdNames,
      escalation_threshold |->
          Get(thresholds, "escalation_threshold",
              DEFAULT_THRESHOLDS.escalation_threshold),
      peer_pressure_min_responders |->
          Get(thresholds, "peer_pressure_min_responders",
              DEFAULT_THRESHOLDS.peer_pressure_min_responders),
      prevention_content_threshold |->
          Get(thresholds, "prevention_content_threshold",
              DEFAULT_THRESHOLDS.prevention_content_threshold),
      recovery_duration_threshold |->
          Get(thresholds, "recovery_duration_threshold",
              DEFAULT_THRESHOLDS.recovery_duration_threshold),
      recovery_proportion_threshold |->
          Get(thresholds, "recovery_proportion_threshold",
              DEFAULT_THRESHOLDS.recovery_proportion_threshold),
      conclusion_duration_threshold |->
          Get(thresholds, "conclusion_duration_threshold",
              DEFAULT_THRESHOLDS.conclusion_duration_threshold),
      conclusion_proportion_threshold |->
          Get(thresholds, "conclusion_proportion_threshold",
              DEFAULT_THRESHOLDS.conclusion_proportion_threshold) ]

\* C15: an analysis given a thresholds mapping that names only some of the
\* thresholds is the analysis under the supplied values merged over the
\* defaults, and no lookup of a threshold left unnamed fails.
C15_ThresholdOverrideMerges ==
    \A k \in 1 .. file_index :
        validate_json(json_files[k]) =>
            /\ OutcomeOf(k).exception # "KeyError"
            /\ OutcomeOf(k) =
                   parse_and_analyze_json_with_thresholds(
                       json_files[k], MergedOverDefaults(test_thresholds))

(***************************************************************************)
(* A timestamp that does not parse (specification SpecBatch).              *)
(***************************************************************************)
\* The neighbours i, i + 1 whose timestamps both parse
ParsedPairs(msgs) ==
    { i \in 1 .. Len(msgs) - 1 :
          TimestampError(msgs[i]) = "" /\ TimestampError(msgs[i + 1]) = "" }

RECURSIVE DeltaSum(_, _)
DeltaSum(msgs, pairs) ==
    IF pairs = {} THEN 0
    ELSE LET i == CHOOSE i \in pairs : TRUE
         IN  (msgs[i + 1].timestamp.seconds - msgs[i].timestamp.seconds)
                 + DeltaSum(msgs, pairs \ {i})

\* The mean of the latencies that do not involve an unparsable timestamp
RemainingLatency(msgs) ==
    IF ParsedPairs(msgs) = {} THEN 0
    ELSE Rounded(DeltaSum(msgs, ParsedPairs(msgs)), Cardinality(ParsedPairs(msgs)), 100)

\* C13: a message whose timestamp does not parse costs only the latencies
\* it is part of: the record of the conversation is returned in full and
\* its avg_response_latency is the mean of the remaining latencies.
C13_MalformedTimestampSkipped ==
    \A k \in 1 .. file_index :
        SucceedsOnRegex(json_files[k]) /\ ~ScorerRaises(json_files[k].messages) =>
            \E j \in 1 .. Len(all_metadata) :
                /\ all_metadata[j].filename = json_files[k].filename
                /\ all_metadata[j].avg_response_latency
                       = RemainingLatency(json_files[k].messages)

(***************************************************************************)
(* The empty conversation (specification Spec).                            *)
(***************************************************************************)
\* C14: the analysis of a conversation of zero messages returns a record
\* in which every ratio is at its neutral value: the densities, the
\* mirroring coefficient, the peer pressure intensity and the average
\* latency are 0 and the forward ratio is reported as 50.0.
C14_EmptyConversationNeutral ==
    messages = << >> =>
        /\ results.meta_reflection_density = 0
        /\ results.mystical_density = 0
        /\ results.mirroring_coefficient = 0
        /\ results.question_density = 0
        /\ results.peer_pressure_intensity = 0
        /\ results.avg_response_latency = 0
        /\ results.mean_forward_ratio = 500
        /\ LatencyError(messages) = ""

\* The record of the analysis of no message at all
C14_Witness ==
    /\ messages = << >>
    /\ results = analyze_messages(<< >>, DEFAULT_THRESHOLDS)
    /\ results.phase_durations.phase1_duration = 0

(***************************************************************************)
(* The order of completion (specification SpecSensitivity).                *)
(***************************************************************************)
\* The values of the tasks of a threshold
ValuesOf(name) ==
    { tasks[t].test_value : t \in { u \in Indices(tasks) : tasks[u].threshold_name = name } }

\* The mapping collected when the workers complete in the order of the task
\* list, each list then put in the order of its threshold values
InTaskOrder ==
    LET collected == Fallback(tasks, Len(tasks), json_files,
                              [ name \in SeqRange(thresholds_to_test) |-> << >> ])
    IN  [ name \in DOMAIN collected |-> SortByValue(collected[name]) ]

C17_SnapshotOutcomeAuthoritative ==
    (Returned /\ "conversation_outcome" \in metadata.keys) =>
        /\ metadata.conversation_outcome
               = analyze_snapshots(analysis_history, DEFAULT_THRESHOLDS).conversation_outcome
        /\ metadata.conversation_outcome \in Outcomes
        /\ metadata.termination_type =
               CASE metadata.conversation_outcome = "breakdown" -> "breakdown"
                 [] metadata.conversation_outcome = "no_breakdown" -> "natural"
                 [] metadata.conversation_outcome = "recovered" -> "recovered"
                 [] metadata.conversation_outcome = "resisted" -> "resisted"
                 [] OTHER -> "none"

\* The snapshots say recovered, and the confidence upgrade has fired on a
\* conversation the message analysis found without breakdown
C17_Witness ==
    /\ Returned
    /\ "conversation_outcome" \in metadata.keys
    /\ metadata.conversation_outcome = "recovered"
    /\ metadata.termination_type = "recovered"
    /\ results.breakdown_confidence = "no_breakdown"
    /\ metadata.breakdown_confidence = "likely"

\* The record as it stands before the confidence upgrade
BeforeUpgrade ==
    FallbackCascade(TerminationFromOutcome(
        Update(File, results, analyze_snapshots(analysis_history, DEFAULT_THRESHOLDS))))

\* C18: in the final record a closure indicator that fires on a confidence
\* of no_breakdown makes the confidence likely and breakdown_occurred 1,
\* whatever the classification before it chose, and a confidence of likely,
\* partial or clear is left as it is.
C18_ConfidenceUpgrade ==
    Returned =>
        \A before \in { BeforeUpgrade } :
            /\ (ClosureIndicators(before) /\ before.breakdown_confidence = "no_breakdown")
                   => /\ metadata.breakdown_confidence = "likely"
                      /\ metadata.breakdown_occurred = 1
            /\ before.breakdown_confidence \in {"likely", "partial", "clear"}
                   => /\ metadata.breakdown_confidence = before.breakdown_confidence
                      /\ metadata.breakdown_occurred = before.breakdown_occurred
            /\ ClosureIndicators(metadata) => metadata.breakdown_confidence # "no_breakdown"

\* A closure indicator fires on a record whose outcome is no_breakdown and
\* whose termination is natural: the record says likely all the same
C18_Witness ==
    /\ Returned
    /\ ClosureIndicators(metadata)
    /\ metadata.termination_type = "natural"
    /\ results.breakdown_occurred = 0
    /\ metadata.breakdown_confidence = "likely"
    /\ metadata.breakdown_occurred = 1

(***************************************************************************)
(* A conversation without signal (specification Spec).                     *)
(***************************************************************************)
\* No message fires the meta-reflection, the escalation vocabulary, the
\* competitive closure or the mystical detector
NoSignal(msgs) ==
    \A i \in Turns(msgs) :
        /\ ~MetaDetected(At(msgs, i))
        /\ At(msgs, i).content.intensity = 0
        /\ ~At(msgs, i).content.competitive
        /\ ~is_mystical_content(At(msgs, i))

\* C19: a conversation of any length in which no message fires one of the
\* four detectors stays in sustained_engagement: the three phase turns are
\* -1, phase1_duration is the number of messages and the other durations
\* are 0, breakdown_occurred is 0 and breakdown_confidence no_breakdown.
C19_NoSignalConversation ==
    NoSignal(messages) =>
        /\ results.current_breakdown_phase = "sustained_engagement"
        /\ results.meta_reflection_turn = -1
        /\ results.competitive_escalation_turn = -1
        /\ results.mystical_breakdown_turn = -1
        /\ results.phase_durations =
               [ phase1_duration |-> Len(messages), phase2_duration |-> 0,
                 phase3_duration |-> 0, phase4_duration |-> 0, phase5_duration |-> 0 ]
        /\ results.breakdown_occurred = 0
        /\ results.breakdown_confidence = "no_breakdown"

\* Four messages of closure and mirroring by three authors, none of which
\* fires one of the four detectors
C19_Witness ==
    /\ Len(messages) >= 4
    /\ NoSignal(messages)
    /\ \E i, j \in Turns(messages) :
           At(messages, i).content.closure /\ At(messages, j).content.mirroring
    /\ results.phase_durations.phase1_duration = Len(messages)


(***************************************************************************)
(* Properties of the recovery outcome (specification SpecRecovery).        *)
(***************************************************************************)
\* The six rules of the outcome determination, in the order they are tried,
\* read off the snapshots of the file and the recovery fields of its record
OutcomeRules ==
    LET mystical == \E k \in Indices(analysis_history) :
                        analysis_history[k].analysis.mystical
        question == \E k \in Indices(analysis_history) :
                        analysis_history[k].analysis.question_recovery
        entries == \E k \in Indices(analysis_history) :
                       InConclusion(analysis_history[k])
        attempts == metadata.recovery_attempts
        sustained == metadata.sustained_recovery = 1
    IN  << [ applies |-> mystical \/ metadata.longest_conclusion_period > 30,
             label |-> IF sustained \/ question THEN "recovered" ELSE "breakdown" ],
           [ applies |-> attempts = 0 /\ ~entries, label |-> "no_breakdown" ],
           [ applies |-> attempts > 0 /\ sustained, label |-> "recovered" ],
           [ applies |-> metadata.phase_oscillations >= 3, label |-> "resisted" ],
           [ applies |-> entries /\ attempts = 0, label |-> "breakdown" ],
           [ applies |-> TRUE, label |-> "no_breakdown" ] >>

FirstMatching(rules) ==
    rules[CHOOSE i \in Indices(rules) :
              rules[i].applies /\ \A j \in 1 .. i - 1 : ~rules[j].applies].label

\* C20: when analyze_recovery_dynamics returns, the outcome it wrote is the
\* label of the first rule that matches, the rules tried in the order (1)
\* mystical text or a conclusion period longer than 30 turns, (2) no recovery
\* attempts and no conclusion entries, (3) recovery attempts and sustained
\* recovery, (4) at least three phase changes, (5) conclusion entries without
\* recovery attempts, (6) otherwise; and it is one of the four labels.
C20_RecoveryOutcomeCascade ==
    (Returned /\ "conversation_outcome" \in metadata.keys) =>
        /\ metadata.conversation_outcome = FirstMatching(OutcomeRules)
        /\ metadata.conversation_outcome \in Outcomes

\* The phase changed three times, the conversation left conclusion without
\* a sustained recovery, and the oscillation rule decided the outcome
C20_Witness ==
    /\ Returned
    /\ "conversation_outcome" \in metadata.keys
    /\ metadata.phase_oscillations >= 3
    /\ metadata.recovery_attempts > 0
    /\ metadata.sustained_recovery = 0
    /\ metadata.longest_conclusion_period <= 30
    /\ metadata.conversation_outcome = "resisted"


\* The last snapshot of the timeline and the length of its final stretch
\* outside conclusion, as the recovery analysis measures them
FinalTurn == analysis_history[Len(analysis_history)].messageCountAtAnalysis
FinalStretch == SustainedDuration(analysis_history)

\* C21: sustained_recovery is set exactly when there was a recovery attempt,
\* the timeline ends outside conclusion, and the final stretch outside
\* conclusion is longer than recovery_duration_threshold turns or larger than
\* recovery_proportion_threshold of the conversation; a final stretch within
\* both thresholds is not a sustained recovery.
C21_SustainedRecoveryCriteria ==
    (Returned /\ "conversation_outcome" \in metadata.keys) =>
        (metadata.sustained_recovery = 1 <=>
            /\ metadata.recovery_attempts > 0
            /\ LastConclusionExit(analysis_history) > 0
            /\ \/ FinalStretch > DEFAULT_THRESHOLDS.recovery_duration_threshold
               \/ FinalStretch * One
                      > DEFAULT_THRESHOLDS.recovery_proportion_threshold * FinalTurn)


(***************************************************************************)
(* Properties of the termination type (specification SpecFile).            *)
(***************************************************************************)
TerminationTypes ==
    {"natural", "breakdown", "recovered", "resisted", "technical", "manual"}

\* The rules of the fallback cascade as the documentation lists them, read
\* off the record
StatedFallbackRules ==
    << [ applies |-> StrongBreakdownFromAnalysis(metadata), label |-> "breakdown" ],
       [ applies |-> Get(metadata, "reached_conclusion", 0) = 1
                         /\ ClosureIndicators(metadata),
         label |-> "breakdown" ],
       [ applies |-> Get(metadata, "reached_conclusion", 0) = 1, label |-> "natural" ],
       [ applies |-> metadata.error_count > 0, label |-> "technical" ],
       [ applies |-> TRUE, label |-> "manual" ] >>

\* The rule the cascade tries before those: the message analysis found a
\* breakdown
MessageBreakdownRule ==
    [ applies |-> results.breakdown_occurred = 1, label |-> "breakdown" ]

\* C22: when the snapshot analysis wrote no conversation_outcome, the
\* termination type is breakdown if the message analysis set
\* breakdown_occurred, and otherwise the label of the first matching rule
\* among strong breakdown indicators, reached conclusion with closure
\* indicators, reached conclusion alone, errors present, and manual; every
\* record has a termination type out of the six values.
C22_FallbackCascade ==
    Returned =>
        /\ "termination_type" \in metadata.keys
        /\ metadata.termination_type \in TerminationTypes
        /\ "conversation_outcome" \notin metadata.keys =>
               metadata.termination_type
                   = FirstMatching(<<MessageBreakdownRule>> \o StatedFallbackRules)

\* C22 as stated: the cascade starts at the strong breakdown indicators
C22_FallbackCascadeAsStated ==
    (Returned /\ "conversation_outcome" \notin metadata.keys) =>
        metadata.termination_type = FirstMatching(StatedFallbackRules)

\* A file with errors and no snapshots whose messages show a breakdown: the
\* cascade has answered breakdown where the errors alone would say technical
C22_Witness ==
    /\ Returned
    /\ "conversation_outcome" \notin metadata.keys
    /\ results.breakdown_occurred = 1
    /\ metadata.error_count > 0
    /\ metadata.termination_type = "breakdown"


(***************************************************************************)
(* Properties of the peer-pressure detector (specification SpecPeer).      *)
(***************************************************************************)
\* The participants other than the author of the trigger who post a
\* mirroring or closure message at one of the five turns after it
QualifyingResponders ==
    { p \in { peer_messages[k].participantId : k \in Indices(peer_messages) } :
        /\ p # At(peer_messages, trigger_turn).participantId
        /\ \E i \in trigger_turn + 1 .. trigger_turn + 5 :
               /\ i < Len(peer_messages)
               /\ At(peer_messages, i).participantId = p
               /\ Qualifies(At(peer_messages, i)) }

RECURSIVE LoopStateBefore(_)
LoopStateBefore(i) ==
    IF i = 0
    THEN PhaseInit
    ELSE MysticalStep(messages, i - 1,
             CompetitiveStep(messages, i - 1,
                 PeerStep(messages, i - 1,
                          MetaStep(messages, i - 1, LoopStateBefore(i - 1)),
                          DEFAULT_THRESHOLDS),
                 DEFAULT_THRESHOLDS))

\* max(peer_response_start, meta_reflection_start, 0) as it stands at turn i,
\* after the meta-reflection and peer-response blocks of that turn
Anchor(i) ==
    LET st == PeerStep(messages, i, MetaStep(messages, i, LoopStateBefore(i)),
                       DEFAULT_THRESHOLDS)
    IN  Max(Max(st.peer_response_started, st.meta_reflection_started), 0)

\* The one-upsmanship check over the window [anchor, i] succeeds at turn i
EscalationSeenAt(i) ==
    /\ i >= Anchor(i) + 2
    /\ LET r == detect_competitive_escalation(messages, Anchor(i), i + 1,
                                              DEFAULT_THRESHOLDS)
       IN  r.one_upsmanship \/ r.score > 3

EscalationTurns == { i \in 0 .. Len(messages) - 1 : EscalationSeenAt(i) }

FirstEscalationTurn ==
    CHOOSE i \in EscalationTurns : \A j \in EscalationTurns : i <= j

\* C24: competitive_escalation is entered at the first turn i >= anchor + 2
\* at which the check over [anchor, i] returns true or a score above 3, its
\* start is anchor + 1 for the anchor of that turn, later turns at which the
\* check succeeds leave the start as it is, and the phase is not entered
\* when the check succeeds at no turn.
C24_CompetitiveEscalationEntry ==
    IF EscalationTurns = {}
    THEN /\ detection.competitive_started = -1
         /\ detection.phases.competitive_escalation = 0
    ELSE /\ detection.competitive_started = Anchor(FirstEscalationTurn) + 1
         /\ detection.phases.competitive_escalation = detection.competitive_started
         /\ LoopStateBefore(FirstEscalationTurn).competitive_started = -1

\* The check succeeded at two turns, and the start is the one recorded at the
\* first of them
C24_Witness ==
    /\ Cardinality(EscalationTurns) >= 2
    /\ detection.competitive_started = Anchor(FirstEscalationTurn) + 1
    /\ detection.phases.competitive_escalation = detection.competitive_started


(***************************************************************************)
(* Properties of the snapshot analysis (specification SpecFile).           *)
(***************************************************************************)
\* A snapshot outside conclusion follows one in conclusion
LeftConclusion ==
    \E j, k \in Indices(analysis_history) :
        /\ j < k
        /\ InConclusion(analysis_history[j])
        /\ ~InConclusion(analysis_history[k])

\* C25: escaped_conclusion is 1 exactly when a snapshot outside conclusion
\* follows a snapshot in conclusion, which is when recovery_attempts > 0, and
\* 0 when conclusion was never entered or never left.
C25_EscapedConclusion ==
    (Returned /\ "escaped_conclusion" \in metadata.keys) =>
        /\ metadata.escaped_conclusion \in {0, 1}
        /\ metadata.escaped_conclusion = 1 <=> LeftConclusion
        /\ metadata.escaped_conclusion = 1 <=> metadata.recovery_attempts > 0


\* breakdown_occurred and breakdown_confidence of a record say the same
FlagsConsistent(record) ==
    /\ record.breakdown_occurred \in {0, 1}
    /\ record.breakdown_confidence \in {"no_breakdown", "likely", "partial", "clear"}
    /\ record.breakdown_occurred = 1
           <=> record.breakdown_confidence \in {"likely", "partial", "clear"}
    /\ record.breakdown_occurred = 0 <=> record.breakdown_confidence = "no_breakdown"

\* C26: breakdown_occurred is 1 exactly when breakdown_confidence is likely,
\* partial or clear, and 0 exactly when it is no_breakdown: in the record of
\* the message analysis, in the record after the fallback cascade and in the
\* final record after the confidence upgrade.
C26_BreakdownFlagConsistency ==
    /\ FlagsConsistent(results)
    /\ Returned => /\ FlagsConsistent(BeforeUpgrade)
                   /\ FlagsConsistent(metadata)

\* The upgrade has turned a record without breakdown into a likely one and
\* has set the flag with it
C26_Witness ==
    /\ Returned
    /\ BeforeUpgrade.breakdown_occurred = 0
    /\ BeforeUpgrade.breakdown_confidence = "no_breakdown"
    /\ metadata.breakdown_occurred = 1
    /\ metadata.breakdown_confidence = "likely"


(***************************************************************************)
(* Properties of the sensitivity analysis with a failing pool              *)
(* (specification SpecPool).                                               *)
(***************************************************************************)
\* C27: the mapping run_sensitivity_analysis returns holds, in the list of
\* each threshold, at most one result per tested value, also when the pool
\* raised after results had been collected and the fallback ran.
C27_NoDuplicateResults ==
    returned # None =>
        \A name \in DOMAIN returned[1] :
            \A i, j \in Indices(returned[1][name]) :
                i # j => returned[1][name][i].threshold_value
                             # returned[1][name][j].threshold_value


(***************************************************************************)
(* Properties of the snapshot analysis, continued (specification SpecFile).*)
(***************************************************************************)
\* C28: for every non-empty snapshot history, also a single snapshot and
\* snapshots that share one messageCountAtAnalysis, the snapshot analysis
\* returns its metrics without raising, and conclusion_percentage is 0 when
\* the conclusion and non-conclusion turns add up to 0.
C28_NoDivisionByZero ==
    analysis_history # << >> =>
        /\ ~Raised(metadata)
        /\ Returned
        /\ "conclusion_percentage" \in metadata.keys
        /\ metadata.total_conclusion_turns + metadata.total_non_conclusion_turns = 0
               => metadata.conclusion_percentage = 0


(***************************************************************************)
(* Properties of the timeline counters (specification SpecRecovery).       *)
(***************************************************************************)
\* C29: in the record of a snapshot timeline, conclusion_loops is
\* recovery_attempts + 1 when the last snapshot is in conclusion and
\* recovery_attempts otherwise, and phase_oscillations is recovery_attempts +
\* conclusion_loops, less 1 when the first snapshot is in conclusion; so
\* recovery_attempts <= conclusion_loops <= recovery_attempts + 1.
C29_ConclusionLoopAccounting ==
    (Returned /\ "conclusion_loops" \in metadata.keys) =>
        /\ metadata.conclusion_loops
               = metadata.recovery_attempts
                 + (IF InConclusion(analysis_history[Len(analysis_history)])
                    THEN 1 ELSE 0)
        /\ metadata.phase_oscillations
               = metadata.recovery_attempts + metadata.conclusion_loops
                 - (IF InConclusion(analysis_history[1]) THEN 1 ELSE 0)
        /\ metadata.recovery_attempts <= metadata.conclusion_loops
        /\ metadata.conclusion_loops <= metadata.recovery_attempts + 1

\* A timeline that starts in conclusion, leaves it, and is back in it at the
\* last snapshot
C29_Witness ==
    /\ Returned
    /\ "conclusion_loops" \in metadata.keys
    /\ InConclusion(analysis_history[1])
    /\ InConclusion(analysis_history[Len(analysis_history)])
    /\ metadata.recovery_attempts = 1
    /\ metadata.conclusion_loops = 2
    /\ metadata.phase_oscillations = 2

(***************************************************************************)
(* C30  Duration bounds: each of phase1_duration .. phase5_duration        *)
(* returned by detect_breakdown_phase is an integer between 0 and the      *)
(* number of messages; no duration is ever negative.                       *)
(***************************************************************************)
DurationValues(d) ==
    { d.phase1_duration, d.phase2_duration, d.phase3_duration,
      d.phase4_duration, d.phase5_duration }

C30_DurationBounds ==
    DurationValues(detection.phase_durations) \subseteq 0 .. Len(messages)

====
